---- MODULE Spec2Model ----
(***************************************************************************)
(* A model of github.com/foomo/soap: the envelope codec (soap.go), the     *)
(* server's dispatch router (server.go) and the client's Call.             *)
(*                                                                         *)
(* XML bytes are modelled by what the Go decoder sees in them: a document  *)
(* is empty, not XML at all, or an Envelope element with a tag prefix, a   *)
(* namespace, and the child elements of its Body.  A Go value behind an    *)
(* interface{} or a pointer is a record [type, val]; type "nil" is nil.    *)
(***************************************************************************)
EXTENDS Naturals, Sequences, FiniteSets, TLC

VARIABLES
    handlers,       \* Server.handlers: path -> action -> messageType -> operationHandler
    sSoapVersion,   \* Server.SoapVersion
    sContentType,   \* Server.ContentType
    pc,             \* position of the one request the router is serving
    r,              \* the *http.Request being served
    w,              \* the responseWriter of the request and what was written to it
    request,        \* ServeHTTP's local `request`: the factory's object after the typed decode
    actionHandler,  \* ServeHTTP's local `actionHandler`: the resolved registry entry
    probed,         \* ServeHTTP's local `probeEnvelope.Body` after the probe decode
    calls,          \* history: the factory and handler invocations of this request
    body0,          \* Body.UnmarshalXML: the Body as the caller built it
    tokens0,        \* Body.UnmarshalXML: the start elements between <Body> and </Body>
    body,           \* Body.UnmarshalXML: the receiver b
    tokens,         \* Body.UnmarshalXML: the start elements not yet read from d
    consumed,       \* Body.UnmarshalXML: the local `consumed`
    bodyErr,        \* Body.UnmarshalXML: the error returned
    bodyPc,         \* Body.UnmarshalXML: "entry", "loop" or "returned"
    cSoapVersion,   \* Client.SoapVersion
    cContentType,   \* Client.ContentType
    url,            \* Client.url (its path)
    callPc,         \* Client.Call: "idle", "sent" (inside HTTPClientDoFn) or "returned"
    call,           \* Client.Call: its arguments soapAction, request, response
    sent,           \* Client.Call: the request handed to HTTPClientDoFn, and how often
    got,            \* Client.Call: what HTTPClientDoFn returned
    result,         \* Client.Call: what it returned, and the response destination then
    rtVersion,      \* codec pipeline: the SOAP version of the sender
    rtValue0,       \* codec pipeline: the value put in Body.Content
    rtData0,        \* codec pipeline: the bytes before any translation
    rtData,         \* codec pipeline: the bytes as they stand
    rtBody,         \* codec pipeline: the Body decoded from the bytes
    rtErr,          \* codec pipeline: the error of the encode or decode
    rtPc,           \* codec pipeline: the steps done so far
    fXml,           \* formatFaultXML: the tokens of xmlBytes
    fTokens,        \* formatFaultXML: the tokens not yet read from d
    fLevel,         \* formatFaultXML: the local `level`
    fOut,           \* formatFaultXML: what was written to `out`, write by write
    fLastWasStart,  \* formatFaultXML: the local `lastWasStart`
    fLastWasEnd,    \* formatFaultXML: the local `lastWasEnd`
    fOpen,          \* history: the elements open at the token being read, outermost first
    fTags,          \* history: the tags written to `out`, each with the elements open around it
    fResult,        \* formatFaultXML: the string returned
    fPc,            \* formatFaultXML: "idle", "loop" or "returned"
    reqs,           \* ServeHTTP: the locals of each call in flight, by request
    objects         \* the objects the request factories returned, by reference

clientVars == <<cSoapVersion, cContentType, url, callPc, call, sent, got, result>>

codecVars == <<rtVersion, rtValue0, rtData0, rtData, rtBody, rtErr, rtPc>>

formatVars == <<fXml, fTokens, fLevel, fOut, fLastWasStart, fLastWasEnd, fOpen, fTags, fResult, fPc>>

routerVars == <<reqs, objects>>

bodyVars == <<body0, tokens0, body, tokens, consumed, bodyErr, bodyPc>>

serverVars == <<handlers, sSoapVersion, sContentType, pc, r, w, request, actionHandler, probed, calls>>

-----------------------------------------------------------------------------
(* soap.go constants *)

SoapVersion11 == "1.1"
SoapVersion12 == "1.2"
SoapContentType11 == "text/xml; charset=\"utf-8\""
SoapContentType12 == "application/soap+xml; charset=\"utf-8\""
NamespaceSoap11 == "http://schemas.xmlsoap.org/soap/envelope/"
NamespaceSoap12 == "http://www.w3.org/2003/05/soap-envelope"
OtherNamespace == "http://xmlme.com/WebServices"

-----------------------------------------------------------------------------
(* Go values *)

Obj(t, v) == [type |-> t, val |-> v]
Nil == Obj("nil", "")
dummyContent == Obj("dummyContent", "")
FooRequest(foo) == Obj("FooRequest", foo)
FooResponse(bar) == Obj("FooResponse", bar)
Fault(str) == Obj("Fault", str)
\* a value encoding/xml cannot marshal (a channel, a func, a map)
Unmarshalable == Obj("chan", "")

\* Body{Fault, Content, SOAPBodyContentType}
Body(fault, content, t) == [Fault |-> fault, Content |-> content, SOAPBodyContentType |-> t]

-----------------------------------------------------------------------------
(* XML documents *)

\* one child element of Body: its resolved namespace, its local name, the one
\* field element it carries (name and text) and whether its subtree is
\* well-formed XML
Element(ns, local, field, val, wf) ==
    [ns |-> ns, local |-> local, field |-> field, val |-> val, wf |-> wf]

EmptyBytes == [kind |-> "empty", prefix |-> "", ns |-> "", hasBody |-> FALSE, children |-> <<>>]
\* bytes that are not an XML document; prefix is the prefix of a first tag, if any
Garbage(prefix) == [kind |-> "garbage", prefix |-> prefix, ns |-> "", hasBody |-> FALSE, children |-> <<>>]
\* <prefix:Envelope xmlns..=ns> [<Body> children </Body>] </prefix:Envelope>
Xml(prefix, ns, hasBody, children) ==
    [kind |-> "xml", prefix |-> prefix, ns |-> ns, hasBody |-> hasBody, children |-> children]

-----------------------------------------------------------------------------
(* part_003: namespace translation, bytes.ReplaceAll of one URI by the other *)

SubstNs(x, from, to) == IF x = from THEN to ELSE x

ReplaceAll(data, from, to) ==
    [data EXCEPT
        !.ns = SubstNs(@, from, to),
        !.children = [i \in DOMAIN @ |->
            [@[i] EXCEPT !.ns = SubstNs(@, from, to), !.val = SubstNs(@, from, to)]]]

\* line 279 leaving the bytes as they are
replaceSoap12to11_Unchanged(data) == data

\* part_003:278-280
replaceSoap12to11(data) == ReplaceAll(data, NamespaceSoap12, NamespaceSoap11)

\* part_003:282-284
replaceSoap11to12(data) == ReplaceAll(data, NamespaceSoap11, NamespaceSoap12)


\* lines 90-92 translating whatever the version is
Outgoing_Always(version, xmlBytes) == replaceSoap11to12(xmlBytes)

\* part_003:90-92 and server.go:405-407
Outgoing(version, xmlBytes) ==
    IF version = SoapVersion12 THEN replaceSoap11to12(xmlBytes) ELSE xmlBytes

-----------------------------------------------------------------------------
(* encoding/xml as this package uses it *)

ErrSyntax == "XML syntax error"
ErrEOF == "EOF"
ErrContentNil == "Content must be a pointer to a struct"
ErrMultiple == "Found multiple elements inside SOAP body; not wrapped-document/literal WS-I compliant"

\* the element name a destination type insists on (its XMLName tag); "" = any
XMLNameOf(type) ==
    CASE type = "FooRequest" -> "fooRequest"
      [] type = "Fault" -> "Fault"
      [] OTHER -> ""

\* the one field of a destination type and the element it is read from
FieldOf(type) ==
    CASE type = "FooRequest" -> "Foo"
      [] type = "FooResponse" -> "Bar"
      [] type = "Fault" -> "faultstring"
      [] OTHER -> ""

\* d.DecodeElement(v, &se): v is filled from the element se
DecodeElement(v, se) ==
    IF XMLNameOf(v.type) # "" /\ XMLNameOf(v.type) # se.local
    THEN [v |-> v, err |-> "expected element type <" \o XMLNameOf(v.type) \o "> but have <" \o se.local \o ">"]
    ELSE IF ~se.wf
    THEN [v |-> v, err |-> ErrSyntax]
    ELSE IF FieldOf(v.type) # "" /\ FieldOf(v.type) = se.field
    THEN [v |-> [v EXCEPT !.val = se.val], err |-> ""]
    ELSE [v |-> v, err |-> ""]

-----------------------------------------------------------------------------
(* soap.go: Body.UnmarshalXML *)

\* line 85 without the namespace test
IsFaultElement_LocalOnly(se) == se.local = "Fault"

\* soap.go:85
IsFaultElement(se) == se.ns = "http://schemas.xmlsoap.org/soap/envelope/" /\ se.local = "Fault"

\* the Fault branch without line 87
DecodeFault_KeepContent(b, se) ==
    LET dec == DecodeElement(Fault(""), se)
    IN  [b |-> [b EXCEPT !.Fault = dec.v], err |-> dec.err]

\* soap.go:86-94, the Fault branch
DecodeFault(b, se) ==
    LET dec == DecodeElement(Fault(""), se)
    IN  [b |-> [b EXCEPT !.Fault = dec.v, !.Content = Nil], err |-> dec.err]

\* soap.go:96-101, the content branch
DecodeContent(b, se) ==
    LET dec == DecodeElement(b.Content, se)
    IN  [b |-> [b EXCEPT !.SOAPBodyContentType = se.local, !.Content = dec.v], err |-> dec.err]

\* lines 83-102 without the test of `consumed`
StartElementToken_Unchecked(b, se, seen) ==
    IF IsFaultElement(se) THEN DecodeFault(b, se)
    ELSE DecodeContent(b, se)

\* soap.go:83-102, one StartElement token
StartElementToken(b, se, seen) ==
    IF seen THEN [b |-> b, err |-> ErrMultiple]
    ELSE IF IsFaultElement(se) THEN DecodeFault(b, se)
    ELSE DecodeContent(b, se)

\* soap.go:71-106, the token loop: toks are the start elements left before
\* Body's end element
RECURSIVE Loop(_, _, _)
Loop(b, toks, seen) ==
    IF toks = <<>> THEN [b |-> b, err |-> ""]
    ELSE LET res == StartElementToken(b, Head(toks), seen)
         IN  IF res.err # "" THEN res ELSE Loop(res.b, Tail(toks), TRUE)

\* lines 60-109 refusing a Body without a child element
UnmarshalXML_NeedsChild(b, children) ==
    IF b.Content = Nil THEN [b |-> b, err |-> ErrContentNil]
    ELSE IF children = <<>> THEN [b |-> b, err |-> ErrEOF]
    ELSE Loop(b, children, FALSE)

\* soap.go:60-109
UnmarshalXML(b, children) ==
    IF b.Content = Nil THEN [b |-> b, err |-> ErrContentNil]
    ELSE Loop(b, children, FALSE)

\* xml.Unmarshal(bytes, &Envelope{Body: b}): the root must be Envelope in the
\* SOAP 1.1 namespace; a Body child is handed to Body.UnmarshalXML
Unmarshal(bytes, b) ==
    IF bytes.kind = "empty" THEN [b |-> b, err |-> ErrEOF]
    ELSE IF bytes.kind = "garbage" THEN [b |-> b, err |-> ErrSyntax]
    ELSE IF bytes.ns # NamespaceSoap11
    THEN [b |-> b, err |-> "expected element <Envelope> in name space " \o NamespaceSoap11 \o " but have " \o bytes.ns]
    ELSE IF ~bytes.hasBody THEN [b |-> b, err |-> ""]
    ELSE UnmarshalXML(b, bytes.children)

\* the element xml.MarshalIndent writes for a value
ElementOf(v) ==
    CASE v.type = "FooRequest" -> Element(NamespaceSoap11, "fooRequest", "Foo", v.val, TRUE)
      [] v.type = "FooResponse" -> Element(NamespaceSoap11, "FooResponse", "Bar", v.val, TRUE)
      [] v.type = "Fault" -> Element(NamespaceSoap11, "Fault", "faultstring", v.val, TRUE)
      [] OTHER -> Element(NamespaceSoap11, v.type, "", "", TRUE)

\* defaultMarshaller.Marshal(&Envelope{Body: b}): no tag prefix, the SOAP 1.1
\* namespace, Fault and Content each omitted when nil
Marshal(b) ==
    IF b.Content.type = "chan"
    THEN [bytes |-> EmptyBytes, err |-> "xml: unsupported type: chan int"]
    ELSE [bytes |-> Xml("", NamespaceSoap11, TRUE,
                        (IF b.Fault = Nil THEN <<>> ELSE <<ElementOf(b.Fault)>>)
                        \o (IF b.Content = Nil THEN <<>> ELSE <<ElementOf(b.Content)>>)),
          err |-> ""]

-----------------------------------------------------------------------------
(* server.go: the responseWriter and the response it wraps *)

\* server.go:327-331
NewResponseWriter == [outputStarted |-> FALSE, status |-> 0, contentType |-> "", writes |-> <<>>]

\* server.go:225-231; `by` records who called Write, the Content-Type header
\* is recorded as it stands at the call
Write(w0, bytes, by) ==
    [w0 EXCEPT !.outputStarted = TRUE,
               !.writes = Append(@, [by |-> by, bytes |-> bytes, contentType |-> w0.contentType])]

\* lines 233-235 also setting outputStarted
WriteHeader_Started(w0, code) == [w0 EXCEPT !.status = code, !.outputStarted = TRUE]

\* server.go:221-223: the header map is handed out, here to set Content-Type
SetHeader(w0, contentType) == [w0 EXCEPT !.contentType = contentType]

\* server.go:233-235
WriteHeader(w0, code) == [w0 EXCEPT !.status = code]

\* server.go:318-321 (the Content-Length header is not modelled)
addSOAPHeader(w0, contentType) == [w0 EXCEPT !.contentType = contentType]

\* server.go:288-306; the default marshaller always encodes a Fault, so the
\* plain-text branch of lines 299-303 is not taken
handleError(err, w0) ==
    LET xml == Marshal(Body(Nil, Fault(err), ""))
    IN  Write(addSOAPHeader(w0, sContentType), xml.bytes, "router")

-----------------------------------------------------------------------------
(* server.go: the operation registry *)

\* what the application may register: the test's factory (server_test.go:22-24),
\* the test's handler (server_test.go:25-30, "hello") and a handler that may
\* write to w and return anything ("env")
RequestFactories == {"newFooRequest"}
HandlerFuncs == {"hello", "env"}
Paths == {"/pathTo", "/other"}
Actions == {"testPostAction", "otherAction"}
MessageTypes == {"fooRequest", "barRequest", ""}

\* the number of RegisterHandler calls explored
MaxRegs == 2

OperationHandler(requestFactory, handler) == [requestFactory |-> requestFactory, handler |-> handler]
NoHandler == OperationHandler("", "")

\* the object a RequestFactoryFunc returns
CallFactory(requestFactory) == FooRequest("")

HasPath(path) == path \in DOMAIN handlers
HasAction(path, action) == HasPath(path) /\ action \in DOMAIN handlers[path]
HasEntry(path, action, t) == HasAction(path, action) /\ t \in DOMAIN handlers[path][action]

Entries == {<<p, a, t>> \in Paths \X Actions \X MessageTypes : HasEntry(p, a, t)}

\* functions with a string domain, extended by one key
Put(f, k, v) == [x \in DOMAIN f \cup {k} |-> IF x = k THEN v ELSE f[x]]
EmptyMap == [x \in {} |-> NoHandler]

\* lines 274-286 making new maps whether or not the path and the action
\* already have one
Registered_NewMaps(path, action, messageType, requestFactory, operationHandlerFunc) ==
    Put(handlers, path,
        Put(EmptyMap, action,
            Put(EmptyMap, messageType, OperationHandler(requestFactory, operationHandlerFunc))))

\* server.go:274-286
Registered(path, action, messageType, requestFactory, operationHandlerFunc) ==
    LET byAction == IF path \in DOMAIN handlers THEN handlers[path] ELSE EmptyMap
        byType == IF action \in DOMAIN byAction THEN byAction[action] ELSE EmptyMap
    IN  Put(handlers, path,
            Put(byAction, action,
                Put(byType, messageType, OperationHandler(requestFactory, operationHandlerFunc))))

-----------------------------------------------------------------------------
(* server.go: ServeHTTP up to the call of the handler *)

Quote(str) == "\"" \o str \o "\""

Request(method, readErr, path, action, bytes) ==
    [method |-> method, readErr |-> readErr, path |-> path, action |-> action, body |-> bytes]
NoRequest == Request("", FALSE, "", "", EmptyBytes)

\* server.go:337-339
Normalize(soapRequestBytes) ==
    IF sSoapVersion = SoapVersion12 THEN replaceSoap12to11(soapRequestBytes) ELSE soapRequestBytes

\* lines 357-363 without the placeholder of line 360
Probe_NoPlaceholder(soapRequestBytes) == Unmarshal(soapRequestBytes, Body(Nil, Nil, ""))

\* server.go:357-363
Probe(soapRequestBytes) == Unmarshal(soapRequestBytes, Body(Nil, dummyContent, ""))

\* lines 375-383 without the decode of line 383
TypedDecode_NoDecode(soapRequestBytes, entry) ==
    [request |-> CallFactory(entry.requestFactory), err |-> ""]

\* server.go:375-383: the factory's object is decoded into in place; after a
\* Fault-shaped body it is dropped from the envelope unwritten, and still
\* handed to the handler
TypedDecode(soapRequestBytes, entry) ==
    LET fresh == CallFactory(entry.requestFactory)
        dec == Unmarshal(soapRequestBytes, Body(Nil, fresh, ""))
    IN  [request |-> IF dec.b.Content = Nil THEN fresh ELSE dec.b.Content, err |-> dec.err]

Outcome(err, entry, req, t, b) == [err |-> err, entry |-> entry, request |-> req, t |-> t, probed |-> b]
NoBody == Body(Nil, Nil, "")

\* server.go:347
ErrUnknownPath(path) == "unknown path " \o Quote(path)

\* server.go:352
ErrUnknownAction(soapAction) == "unknown action " \o Quote(soapAction)

\* line 372 naming the SOAPAction instead of the body element
ErrNoHandler_Action(req, t) == "no action handler for content type: " \o Quote(req.action)

\* server.go:372
ErrNoHandler(req, t) == "no action handler for content type: " \o Quote(t)

\* lines 332-387 with the probe of lines 357-367 moved before the lookups
Dispatch_ProbeFirst(req) ==
    LET soapRequestBytes == Normalize(req.body)
        probe == Probe(soapRequestBytes)
        t == probe.b.SOAPBodyContentType
        entry == handlers[req.path][req.action][t]
        typed == TypedDecode(soapRequestBytes, entry)
    IN  IF req.method # "POST"
        THEN Outcome("this is a soap service - you have to POST soap requests", NoHandler, Nil, "", NoBody)
        ELSE IF req.readErr
        THEN Outcome("could not read POST:: unexpected EOF", NoHandler, Nil, "", NoBody)
        ELSE IF probe.err # ""
        THEN Outcome("could not probe soap body content:: " \o probe.err, NoHandler, Nil, "", probe.b)
        ELSE IF ~HasPath(req.path)
        THEN Outcome(ErrUnknownPath(req.path), NoHandler, Nil, "", NoBody)
        ELSE IF ~HasAction(req.path, req.action)
        THEN Outcome(ErrUnknownAction(req.action), NoHandler, Nil, "", NoBody)
        ELSE IF ~HasEntry(req.path, req.action, t)
        THEN Outcome(ErrNoHandler(req, t), NoHandler, Nil, t, probe.b)
        ELSE IF typed.err # ""
        THEN Outcome("could not unmarshal request:: " \o typed.err, entry, typed.request, t, probe.b)
        ELSE Outcome("", entry, typed.request, t, probe.b)

\* server.go:332-387: the error ServeHTTP answers with, or the resolved entry
\* and decoded request
Dispatch(req) ==
    LET soapRequestBytes == Normalize(req.body)
        probe == Probe(soapRequestBytes)
        t == probe.b.SOAPBodyContentType
        entry == handlers[req.path][req.action][t]
        typed == TypedDecode(soapRequestBytes, entry)
    IN  IF req.method # "POST"
        THEN Outcome("this is a soap service - you have to POST soap requests", NoHandler, Nil, "", NoBody)
        ELSE IF req.readErr
        THEN Outcome("could not read POST:: unexpected EOF", NoHandler, Nil, "", NoBody)
        ELSE IF ~HasPath(req.path)
        THEN Outcome(ErrUnknownPath(req.path), NoHandler, Nil, "", NoBody)
        ELSE IF ~HasAction(req.path, req.action)
        THEN Outcome(ErrUnknownAction(req.action), NoHandler, Nil, "", NoBody)
        ELSE IF probe.err # ""
        THEN Outcome("could not probe soap body content:: " \o probe.err, NoHandler, Nil, "", probe.b)
        ELSE IF ~HasEntry(req.path, req.action, t)
        THEN Outcome(ErrNoHandler(req, t), NoHandler, Nil, t, probe.b)
        ELSE IF typed.err # ""
        THEN Outcome("could not unmarshal request:: " \o typed.err, entry, typed.request, t, probe.b)
        ELSE Outcome("", entry, typed.request, t, probe.b)

\* an entry of the history `calls`: which function of which registry entry
\* was called, and with what
Invocation(fn, key, entry, arg) == [fn |-> fn, key |-> key, entry |-> entry, arg |-> arg]

-----------------------------------------------------------------------------
(* the requests and the handlers' behaviour explored *)

FooElement(ns, foo) == Element(ns, "fooRequest", "Foo", foo, TRUE)
BarElement(ns, foo) == Element(ns, "barRequest", "Foo", foo, TRUE)
FaultElement(ns, str) == Element(ns, "Fault", "faultstring", str, TRUE)

RequestBodies ==
    { Xml("SOAP", NamespaceSoap11, TRUE, <<FooElement(NamespaceSoap11, "i am foo")>>),   \* server_test.go:53-60
      Xml("SOAP", NamespaceSoap11, TRUE, <<BarElement(NamespaceSoap11, "i am foo")>>),   \* server_test.go:72-79
      Xml("", NamespaceSoap11, TRUE, <<FooElement(NamespaceSoap11, "hello world")>>),    \* client_test.go:27-34
      Xml("soap12", NamespaceSoap12, TRUE, <<FooElement(NamespaceSoap12, "hello world")>>),
      Xml("", NamespaceSoap11, TRUE, <<FaultElement(NamespaceSoap11, "boom")>>),
      Xml("", NamespaceSoap11, TRUE, <<>>),
      Xml("", NamespaceSoap11, FALSE, <<>>),
      Xml("", NamespaceSoap11, TRUE, <<FooElement(NamespaceSoap11, "i am foo"), BarElement(NamespaceSoap11, "i am foo")>>),
      Xml("", NamespaceSoap11, TRUE, <<Element(NamespaceSoap11, "fooRequest", "Foo", "", FALSE)>>),
      Garbage(""),
      EmptyBytes }

Requests ==
    {Request("POST", FALSE, p, a, b) : p \in Paths, a \in Actions, b \in RequestBodies}
    \cup {Request("POST", TRUE, "/pathTo", "testPostAction", EmptyBytes),
          Request("GET", FALSE, "/pathTo", "testPostAction", EmptyBytes)}

\* server_test.go:27-29
Hello(foo) == "Hello \"" \o foo \o "\""

\* what handler "env" may return
Responses == {FooResponse("done"), Nil, Unmarshalable}
HandlerErrors == {"", "boom"}

-----------------------------------------------------------------------------
(* the server's operations *)

ServerInit ==
    /\ handlers = [x \in {} |-> EmptyMap]
    /\ sSoapVersion = SoapVersion11     \* server.go:247-254
    /\ sContentType = SoapContentType11
    /\ pc = "idle"
    /\ r = NoRequest
    /\ w = NewResponseWriter
    /\ request = Nil
    /\ actionHandler = NoHandler
    /\ probed = NoBody
    /\ calls = <<>>

\* server.go:262-265
ServerUseSoap11 ==
    /\ pc = "idle"
    /\ sSoapVersion' = SoapVersion11
    /\ sContentType' = SoapContentType11
    /\ UNCHANGED <<handlers, pc, r, w, request, actionHandler, probed, calls, bodyVars, clientVars, codecVars, formatVars, routerVars>>

\* server.go:267-270
ServerUseSoap12 ==
    /\ pc = "idle"
    /\ sSoapVersion' = SoapVersion12
    /\ sContentType' = SoapContentType12
    /\ UNCHANGED <<handlers, pc, r, w, request, actionHandler, probed, calls, bodyVars, clientVars, codecVars, formatVars, routerVars>>

\* server.go:272-286; called before the server is started
RegisterHandler(path, action, messageType, requestFactory, operationHandlerFunc) ==
    /\ pc = "idle"
    /\ Cardinality(Entries \cup {<<path, action, messageType>>}) <= MaxRegs
    /\ handlers' = Registered(path, action, messageType, requestFactory, operationHandlerFunc)
    /\ UNCHANGED <<sSoapVersion, sContentType, pc, r, w, request, actionHandler, probed, calls, bodyVars, clientVars, codecVars, formatVars, routerVars>>

\* server.go:323-390: from the arrival of the request to the call of the
\* handler, or to the Fault written instead
ServeHTTP(req) ==
    LET out == Dispatch(req)
        key == <<req.path, req.action, out.t>>
    IN  /\ pc = "idle"
        /\ r' = req
        /\ probed' = out.probed
        /\ actionHandler' = out.entry
        /\ request' = out.request
        /\ calls' = (IF out.entry = NoHandler THEN <<>>
                     ELSE <<Invocation("requestFactory", key, out.entry, Nil)>>)
                    \o (IF out.err = "" THEN <<Invocation("handler", key, out.entry, out.request)>>
                        ELSE <<>>)
        /\ IF out.err = ""
           THEN /\ w' = NewResponseWriter
                /\ pc' = "handler"
           ELSE /\ w' = handleError(out.err, NewResponseWriter)
                /\ pc' = "done"
        /\ UNCHANGED <<handlers, sSoapVersion, sContentType, bodyVars, clientVars, codecVars, formatVars, routerVars>>

\* the handler writes its own output to w (server.go:225-231)
HandlerWrite ==
    /\ pc = "handler"
    /\ actionHandler.handler = "env"
    /\ w.writes = <<>>
    /\ w' = Write(w, Garbage(""), "handler")
    /\ UNCHANGED <<handlers, sSoapVersion, sContentType, pc, r, request, actionHandler, probed, calls, bodyVars, clientVars, codecVars, formatVars, routerVars>>

\* the handler sets a status code (server.go:233-235)
HandlerWriteHeader ==
    /\ pc = "handler"
    /\ actionHandler.handler = "env"
    /\ w.status = 0
    /\ w' = WriteHeader(w, 202)
    /\ UNCHANGED <<handlers, sSoapVersion, sContentType, pc, r, request, actionHandler, probed, calls, bodyVars, clientVars, codecVars, formatVars, routerVars>>

\* the handler sets a header through w.Header() (server.go:221-223)
HandlerHeader ==
    /\ pc = "handler"
    /\ actionHandler.handler = "env"
    /\ w.contentType = ""
    /\ w.writes = <<>>
    /\ w' = SetHeader(w, "text/plain")
    /\ UNCHANGED <<handlers, sSoapVersion, sContentType, pc, r, request, actionHandler, probed, calls, bodyVars, clientVars, codecVars, formatVars, routerVars>>

\* server.go:397-415, the handler having returned (response, nil)
SendResponse(response, w0) ==
    IF ~w0.outputStarted
    THEN LET xml == Marshal(Body(Nil, response, ""))
             xmlBytes == Outgoing(sSoapVersion, xml.bytes)
             w1 == IF xml.err # "" THEN handleError("could not marshal response:: " \o xml.err, w0) ELSE w0
         IN  Write(addSOAPHeader(w1, sContentType), xmlBytes, "router")
    ELSE w0

\* server.go:390-415
AfterHandler(response, err, w0) ==
    IF err # "" THEN handleError(err, w0) ELSE SendResponse(response, w0)

\* server.go:390-415: the handler returns and ServeHTTP finishes
HandlerReturn(response, err) ==
    /\ pc = "handler"
    /\ actionHandler.handler = "hello" => response = FooResponse(Hello(request.val)) /\ err = ""
    /\ w' = AfterHandler(response, err, w)
    /\ calls' = Append(calls, Invocation("return", <<r.path, r.action, probed.SOAPBodyContentType>>, actionHandler,
                                         IF err # "" THEN Obj("error", err) ELSE response))
    /\ pc' = "done"
    /\ UNCHANGED <<handlers, sSoapVersion, sContentType, r, request, actionHandler, probed, bodyVars, clientVars, codecVars, formatVars, routerVars>>

-----------------------------------------------------------------------------
(* soap.go: Body.UnmarshalXML, token by token *)

\* the number of start elements inside Body explored
MaxChildren == 2

\* the destinations a caller puts in Body.Content (nil: none)
Contents == {Nil, dummyContent, FooRequest(""), FooResponse("")}

BodyElements ==
    { FooElement(NamespaceSoap11, "i am foo"),
      BarElement(NamespaceSoap11, "i am foo"),
      Element(OtherNamespace, "FooResponse", "Bar", "I love deadlines.", TRUE),   \* client_test.go:40-42
      FaultElement(NamespaceSoap11, "boom"),
      FaultElement(NamespaceSoap12, "boom"),
      Element(NamespaceSoap11, "fooRequest", "Foo", "", FALSE),
      Element(NamespaceSoap11, "Fault", "faultstring", "", FALSE) }

RECURSIVE SeqsUpTo(_, _)
SeqsUpTo(S, n) ==
    IF n = 0 THEN {<<>>}
    ELSE LET shorter == SeqsUpTo(S, n - 1)
         IN  shorter \cup {Append(q, x) : q \in shorter, x \in S}

BodyIdle ==
    /\ body0 = NoBody
    /\ tokens0 = <<>>
    /\ body = NoBody
    /\ tokens = <<>>
    /\ consumed = FALSE
    /\ bodyErr = ""
    /\ bodyPc = "idle"

\* the decoder has read <Body> and calls b.UnmarshalXML
BodyInit ==
    /\ body0 \in {Body(Nil, c, "") : c \in Contents}
    /\ tokens0 \in SeqsUpTo(BodyElements, MaxChildren)
    /\ body = body0
    /\ tokens = tokens0
    /\ consumed = FALSE
    /\ bodyErr = ""
    /\ bodyPc = "entry"

\* soap.go:61-63
BodyEnter ==
    /\ bodyPc = "entry"
    /\ IF body.Content = Nil
       THEN bodyErr' = ErrContentNil /\ bodyPc' = "returned"
       ELSE bodyErr' = bodyErr /\ bodyPc' = "loop"
    /\ UNCHANGED <<body0, tokens0, body, tokens, consumed, serverVars, clientVars, codecVars, formatVars, routerVars>>

\* soap.go:81-102: d.Token() is a StartElement
BodyStartElement ==
    /\ bodyPc = "loop"
    /\ tokens # <<>>
    /\ LET res == StartElementToken(body, Head(tokens), consumed)
       IN  /\ body' = res.b
           /\ bodyErr' = res.err
           /\ IF res.err # ""
              THEN bodyPc' = "returned" /\ UNCHANGED <<tokens, consumed>>
              ELSE bodyPc' = "loop" /\ tokens' = Tail(tokens) /\ consumed' = TRUE
    /\ UNCHANGED <<body0, tokens0, serverVars, clientVars, codecVars, formatVars, routerVars>>

\* soap.go:103-108: d.Token() is Body's EndElement
BodyEndElement ==
    /\ bodyPc = "loop"
    /\ tokens = <<>>
    /\ bodyPc' = "returned"
    /\ UNCHANGED <<body0, tokens0, body, tokens, consumed, bodyErr, serverVars, clientVars, codecVars, formatVars, routerVars>>

-----------------------------------------------------------------------------
(* part_003: Client *)

\* "<soap"/"<SOAP" opens a tag whose written name (its prefix, or its local
\* name when it has no prefix) starts with soap or SOAP
StartsWithSoap(name) == name \in {"soap", "SOAP", "soap12", "SOAP-ENV", "soapenv"}

\* the written name of the document's first tag
FirstTag(bytes) == IF bytes.kind = "xml" /\ bytes.prefix = "" THEN "Envelope" ELSE bytes.prefix

\* part_003:144, bytes.HasPrefix(slurp, soapPrefixTagLC) || bytes.HasPrefix(slurp, soapPrefixTagUC)
HasSoapPrefix(slurp) == slurp.kind # "empty" /\ StartsWithSoap(FirstTag(slurp))

\* line 164 taking every body for SOAP
ContainsSoapTag_Always(rawBody) == TRUE

\* part_003:164, bytes.Contains(rawBody, soapPrefixTagLC) || bytes.Contains(rawBody, soapPrefixTagUC)
ContainsSoapTag(rawBody) ==
    /\ rawBody.kind # "empty"
    /\ \/ StartsWithSoap(FirstTag(rawBody))
       \/ \E i \in DOMAIN rawBody.children : StartsWithSoap(rawBody.children[i].local)

\* part_003:202-271 with startLevel 1, for a document without character data
\* between its elements: the elements below Body, one per line, local names only
RECURSIVE formatChildren(_)
formatChildren(children) ==
    IF children = <<>> THEN ""
    ELSE LET c == Head(children)
             inner == IF c.field = "" THEN ""
                      ELSE "\n\t<" \o c.field \o ">" \o c.val \o "</" \o c.field \o ">\n"
         IN  "<" \o c.local \o ">" \o inner \o "</" \o c.local \o ">"
             \o (IF Tail(children) = <<>> THEN "" ELSE "\n")
             \o formatChildren(Tail(children))

formatFaultXML(xmlBytes) == IF xmlBytes.kind = "xml" THEN formatChildren(xmlBytes.children) ELSE ""

\* an *http.Response: the media type of its Content-Type header, its body,
\* and the parts of the body when it is multipart
HttpResponse(mediaType, bytes, parts, status) ==
    [mediaType |-> mediaType, body |-> bytes, parts |-> parts, status |-> status]
NoResponse == HttpResponse("", EmptyBytes, <<>>, 0)

IsMultipart(mediaType) == mediaType \in {"multipart/form-data", "multipart/related"}

\* what Call returns: whether the *http.Response is non-nil, the error (""
\* for nil; rawBody where the error text ends with the raw body), and the
\* response destination as Call leaves it; and what Call did on the way: the
\* number of parts it read from a multipart body, whether it read a
\* single-part body, whether it called xml.Unmarshal
CallResult(hasResponse, err, rawBody, response) ==
    [httpResponse |-> hasResponse, err |-> err, rawBody |-> rawBody, response |-> response,
     partsRead |-> 0, bodyRead |-> FALSE, decoded |-> FALSE]

\* part_003:129-149: the first part that starts with a SOAP tag
RECURSIVE SoapyPart(_)
SoapyPart(parts) ==
    IF parts = <<>> THEN [found |-> FALSE, slurp |-> EmptyBytes, read |-> 0]
    ELSE IF HasSoapPrefix(Head(parts)) THEN [found |-> TRUE, slurp |-> Head(parts), read |-> 1]
    ELSE LET rest == SoapyPart(Tail(parts))
         IN  [rest EXCEPT !.read = @ + 1]

\* lines 174-197 without the translation of line 177
Decode_NoNormalize(rawBody0, response) ==
    LET rawBody == rawBody0
        content == IF response = Nil THEN dummyContent ELSE response
        dec == Unmarshal(rawBody, Body(Nil, content, ""))
        filled == IF response = Nil \/ dec.b.Content = Nil THEN response ELSE dec.b.Content
        res == IF dec.err # ""
               THEN CallResult(FALSE, "soap/client.go Call(): COULD NOT UNMARSHAL: " \o dec.err \o "\n", EmptyBytes, filled)
               ELSE IF dec.b.Fault # Nil
               THEN CallResult(FALSE, "SOAP FAULT:\n" \o formatFaultXML(rawBody), EmptyBytes, filled)
               ELSE CallResult(TRUE, "", EmptyBytes, filled)
    IN  [res EXCEPT !.decoded = TRUE]

\* lines 174-197 without the placeholder of lines 183-184
Decode_NoPlaceholder(rawBody0, response) ==
    LET rawBody == replaceSoap12to11(rawBody0)
        dec == Unmarshal(rawBody, Body(Nil, response, ""))
        res == IF dec.err # ""
               THEN CallResult(FALSE, "soap/client.go Call(): COULD NOT UNMARSHAL: " \o dec.err \o "\n", EmptyBytes, dec.b.Content)
               ELSE IF dec.b.Fault # Nil
               THEN CallResult(FALSE, "SOAP FAULT:\n" \o formatFaultXML(rawBody), EmptyBytes, response)
               ELSE CallResult(TRUE, "", EmptyBytes, dec.b.Content)
    IN  [res EXCEPT !.decoded = TRUE]

\* lines 174-197 without the test of lines 188-190
Decode_Swallow(rawBody0, response) ==
    LET rawBody == replaceSoap12to11(rawBody0)
        content == IF response = Nil THEN dummyContent ELSE response
        dec == Unmarshal(rawBody, Body(Nil, content, ""))
        filled == IF response = Nil \/ dec.b.Content = Nil THEN response ELSE dec.b.Content
        res == IF dec.b.Fault # Nil
               THEN CallResult(FALSE, "SOAP FAULT:\n" \o formatFaultXML(rawBody), EmptyBytes, filled)
               ELSE CallResult(TRUE, "", EmptyBytes, filled)
    IN  [res EXCEPT !.decoded = TRUE]

\* part_003:174-197: rawBody is normalised and decoded into response
Decode(rawBody0, response) ==
    LET rawBody == replaceSoap12to11(rawBody0)
        content == IF response = Nil THEN dummyContent ELSE response
        dec == Unmarshal(rawBody, Body(Nil, content, ""))
        filled == IF response = Nil \/ dec.b.Content = Nil THEN response ELSE dec.b.Content
        res == IF dec.err # ""
               THEN CallResult(FALSE, "soap/client.go Call(): COULD NOT UNMARSHAL: " \o dec.err \o "\n", EmptyBytes, filled)
               ELSE IF dec.b.Fault # Nil
               THEN CallResult(FALSE, "SOAP FAULT:\n" \o formatFaultXML(rawBody), EmptyBytes, filled)
               ELSE CallResult(TRUE, "", EmptyBytes, filled)
    IN  [res EXCEPT !.decoded = TRUE]

\* lines 118-197 without the test of lines 159-162
Receive_NoEmptyCheck(httpResponse, response) ==
    IF IsMultipart(httpResponse.mediaType)
    THEN LET part == SoapyPart(httpResponse.parts)
             res == IF ~part.found
                    THEN CallResult(FALSE, "multipart message does contain a soapy part", EmptyBytes, response)
                    ELSE Decode(part.slurp, response)
         IN  [res EXCEPT !.partsRead = part.read]
    ELSE LET res == IF ~ContainsSoapTag(httpResponse.body)
                    THEN CallResult(FALSE, "This is not a SOAP-Message: \n", httpResponse.body, response)
                    ELSE Decode(httpResponse.body, response)
         IN  [res EXCEPT !.bodyRead = TRUE]

\* part_003:118-197: Call after HTTPClientDoFn returned httpResponse
Receive(httpResponse, response) ==
    IF IsMultipart(httpResponse.mediaType)
    THEN LET part == SoapyPart(httpResponse.parts)
             res == IF ~part.found
                    THEN CallResult(FALSE, "multipart message does contain a soapy part", EmptyBytes, response)
                    ELSE Decode(part.slurp, response)
         IN  [res EXCEPT !.partsRead = part.read]
    ELSE LET res == IF httpResponse.body.kind = "empty"
                    THEN CallResult(TRUE, "", EmptyBytes, response)
                    ELSE IF ~ContainsSoapTag(httpResponse.body)
                    THEN CallResult(FALSE, "This is not a SOAP-Message: \n", httpResponse.body, response)
                    ELSE Decode(httpResponse.body, response)
         IN  [res EXCEPT !.bodyRead = TRUE]

\* lines 114-117 without the test of err
AfterSend_IgnoreError(httpResponse, err, response) == Receive(httpResponse, response)

\* part_003:114-117: HTTPClientDoFn returned (httpResponse, err)
AfterSend(httpResponse, err, response) ==
    IF err # "" THEN CallResult(FALSE, err, EmptyBytes, response)
    ELSE Receive(httpResponse, response)

NoCall == [soapAction |-> "", request |-> Nil, response |-> Nil]
NothingSent == [n |-> 0, request |-> NoRequest, contentType |-> ""]
NoResult == CallResult(FALSE, "", EmptyBytes, Nil)
NothingGot == [httpResponse |-> NoResponse, err |-> ""]

\* part_003:57-67, a client left idle
ClientIdle ==
    /\ cSoapVersion = SoapVersion11
    /\ cContentType = SoapContentType11
    /\ url = "/pathTo"
    /\ callPc = "idle"
    /\ call = NoCall
    /\ sent = NothingSent
    /\ got = NothingGot
    /\ result = NoResult

\* part_003:57-67
ClientInit ==
    /\ cSoapVersion = SoapVersion11
    /\ cContentType = SoapContentType11
    /\ url \in Paths
    /\ callPc = "idle"
    /\ call = NoCall
    /\ sent = NothingSent
    /\ got = NothingGot
    /\ result = NoResult

\* part_003:69-72
ClientUseSoap11 ==
    /\ callPc = "idle"
    /\ cSoapVersion' = SoapVersion11
    /\ cContentType' = SoapContentType11
    /\ UNCHANGED <<url, callPc, call, sent, got, result, serverVars, bodyVars, codecVars, formatVars, routerVars>>

\* part_003:74-77
ClientUseSoap12 ==
    /\ callPc = "idle"
    /\ cSoapVersion' = SoapVersion12
    /\ cContentType' = SoapContentType12
    /\ UNCHANGED <<url, callPc, call, sent, got, result, serverVars, bodyVars, codecVars, formatVars, routerVars>>

\* part_003:80-114: Call up to the call of HTTPClientDoFn
ClientCall(soapAction, req, response) ==
    LET xml == Marshal(Body(Nil, req, ""))
        xmlBytes == Outgoing(cSoapVersion, xml.bytes)
    IN  /\ callPc = "idle"
        /\ call' = [soapAction |-> soapAction, request |-> req, response |-> response]
        /\ IF xml.err # ""
           THEN /\ result' = CallResult(FALSE, xml.err, EmptyBytes, response)
                /\ callPc' = "returned"
                /\ sent' = sent
           ELSE /\ sent' = [n |-> sent.n + 1,
                            request |-> Request("POST", FALSE, url, soapAction, xmlBytes),
                            contentType |-> cContentType]
                /\ callPc' = "sent"
                /\ result' = result
        /\ UNCHANGED <<cSoapVersion, cContentType, url, got, serverVars, bodyVars, codecVars, formatVars, routerVars>>

-----------------------------------------------------------------------------
(* the client's transport wired to the server (an httptest.Server) *)

MediaTypeOf(contentType) ==
    CASE contentType = SoapContentType11 -> "text/xml"
      [] contentType = SoapContentType12 -> "application/soap+xml"
      [] OTHER -> ""

\* the bytes of the writes, one after the other
RECURSIVE Concat(_)
Concat(writes) ==
    IF writes = <<>> THEN EmptyBytes
    ELSE LET first == Head(writes).bytes
             rest == Concat(Tail(writes))
         IN  IF first.kind = "empty" THEN rest
             ELSE IF rest.kind = "empty" THEN first
             ELSE Garbage(FirstTag(first))

\* the response the transport hands back for what the server wrote
ServerResponse ==
    HttpResponse(IF w.writes = <<>> THEN "" ELSE MediaTypeOf(w.writes[1].contentType),
                 Concat(w.writes), <<>>, IF w.status = 0 THEN 200 ELSE w.status)

\* the request reaches the server
Deliver ==
    /\ callPc = "sent"
    /\ ServeHTTP(sent.request)

\* part_003:114-197: HTTPClientDoFn returns and Call finishes
HTTPClientDoFn(httpResponse, err) ==
    /\ callPc = "sent"
    /\ got' = [httpResponse |-> httpResponse, err |-> err]
    /\ result' = AfterSend(httpResponse, err, call.response)
    /\ callPc' = "returned"
    /\ UNCHANGED <<cSoapVersion, cContentType, url, call, sent, serverVars, bodyVars, codecVars, formatVars, routerVars>>

\* the transport returns the server's response
ClientReceive ==
    /\ pc = "done"
    /\ HTTPClientDoFn(ServerResponse, "")

\* the calls explored against the server
CallActions == {"testPostAction", ""}
CallRequests == {FooRequest("hello world")}
CallResponses == {FooResponse("")}

-----------------------------------------------------------------------------
(* the client's transport replaced by a function that returns what it is    *)
(* told to (client_test.go:46-50)                                           *)

\* the number of parts of a multipart response explored
MaxParts == 2

\* client_test.go:36-44 is LoveResponse("soap12", NamespaceSoap12)
LoveElement == Element(OtherNamespace, "FooResponse", "Bar", "I love deadlines.", TRUE)
LoveResponse(prefix, ns) == Xml(prefix, ns, TRUE, <<LoveElement>>)
FaultResponse(prefix, ns) == Xml(prefix, ns, TRUE, <<FaultElement(ns, "boom")>>)

\* response bodies: envelopes of both namespaces with and without a tag
\* prefix, bodies that do not decode, and bodies that are not SOAP
ResponseBodies ==
    { LoveResponse("soap12", NamespaceSoap12),
      LoveResponse("soap12", NamespaceSoap11),
      LoveResponse("", NamespaceSoap11),
      FaultResponse("soap", NamespaceSoap12),
      FaultResponse("soap", NamespaceSoap11),
      FaultResponse("", NamespaceSoap11),
      Xml("SOAP-ENV", NamespaceSoap11, TRUE, <<>>),
      Xml("SOAP-ENV", NamespaceSoap11, FALSE, <<>>),
      Xml("soap", NamespaceSoap11, TRUE, <<FaultElement(NamespaceSoap11, "boom"), LoveElement>>),
      Xml("soap", NamespaceSoap11, TRUE, <<LoveElement, LoveElement>>),
      Xml("soap", NamespaceSoap11, TRUE, <<Element(OtherNamespace, "FooResponse", "Bar", "", FALSE)>>),
      Xml("soap", OtherNamespace, TRUE, <<LoveElement>>),
      Xml("", NamespaceSoap11, TRUE, <<Element(OtherNamespace, "soap", "Bar", "I love deadlines.", TRUE)>>),
      Garbage(""),             \* client_test.go:123, <wrong></wrong>
      Garbage("seife12"),      \* client_test.go:82-87
      Garbage("soap"),
      EmptyBytes }

\* the parts of multipart responses
PartBodies ==
    { LoveResponse("soap12", NamespaceSoap12),
      FaultResponse("SOAP-ENV", NamespaceSoap11),
      LoveResponse("", NamespaceSoap11),
      Xml("", NamespaceSoap11, TRUE, <<Element(OtherNamespace, "soap", "Bar", "I love deadlines.", TRUE)>>),
      Garbage("") }

HttpResponses ==
    {HttpResponse(m, b, <<>>, 200) : m \in {"text/xml", ""}, b \in ResponseBodies}
    \cup {HttpResponse("multipart/form-data", EmptyBytes, parts, 200) : parts \in SeqsUpTo(PartBodies, MaxParts)}

\* the errors of the transport
TransportErrors == {"dial tcp: connection refused"}

\* the calls explored: a request encoding/xml rejects, and the destinations
\* nil, of the response's type and of another type
StubRequests == {FooRequest("hello world"), Unmarshalable}
StubResponses == {Nil, FooResponse(""), FooRequest("")}

-----------------------------------------------------------------------------
(* the codec pipeline: encode, translate on the way out, translate on the   *)
(* way in, decode (part_003:81-92, 177-188; server.go:337-339, 383, 403-407) *)

\* the texts a payload field holds
Texts == {"hello world", "", "i am foo", "I love deadlines.", "boom", NamespaceSoap11, NamespaceSoap12}

\* the values put in Body.Content (client_test.go:16-24)
Values == {FooRequest(x) : x \in Texts} \cup {FooResponse(x) : x \in Texts}

\* byte strings that were not encoded by this package: envelopes of either
\* namespace or of neither, whose elements and texts name either namespace
Namespaces == {NamespaceSoap11, NamespaceSoap12, OtherNamespace}
ByteElements == {Element(ns, "fooRequest", "Foo", x, TRUE) : ns \in Namespaces, x \in {"hello world", NamespaceSoap11, NamespaceSoap12}}
ByteStrings ==
    {Xml("soap", ns, TRUE, children) : ns \in Namespaces, children \in SeqsUpTo(ByteElements, MaxChildren)}
    \cup {Garbage(""), EmptyBytes}

\* server.go:337-339: the receiver of the same version
Incoming(version, soapRequestBytes) ==
    IF version = SoapVersion12 THEN replaceSoap12to11(soapRequestBytes) ELSE soapRequestBytes

\* a destination of the type of v, as a request factory returns it
Fresh(v) == IF v = Nil THEN dummyContent ELSE Obj(v.type, "")

CodecIdle ==
    /\ rtVersion = SoapVersion11
    /\ rtValue0 = Nil
    /\ rtData0 = EmptyBytes
    /\ rtData = EmptyBytes
    /\ rtBody = NoBody
    /\ rtErr = ""
    /\ rtPc = "idle"

\* a value to encode, or bytes that came from elsewhere
CodecInit ==
    /\ rtVersion \in {SoapVersion11, SoapVersion12}
    /\ \/ rtValue0 \in Values /\ rtData0 = EmptyBytes /\ rtPc = "value"
       \/ rtValue0 = Nil /\ rtData0 \in ByteStrings /\ rtPc = "encoded"
    /\ rtData = rtData0
    /\ rtBody = NoBody
    /\ rtErr = ""

\* part_003:81-88
Encode ==
    /\ rtPc = "value"
    /\ LET xml == Marshal(Body(Nil, rtValue0, ""))
       IN  /\ rtData0' = xml.bytes
           /\ rtData' = xml.bytes
           /\ rtErr' = xml.err
    /\ rtPc' = "encoded"
    /\ UNCHANGED <<rtVersion, rtValue0, rtBody, serverVars, bodyVars, clientVars, formatVars, routerVars>>

\* part_003:90-92
TranslateOut ==
    /\ rtPc = "encoded"
    /\ rtData' = Outgoing(rtVersion, rtData)
    /\ rtPc' = "sent"
    /\ UNCHANGED <<rtVersion, rtValue0, rtData0, rtBody, rtErr, serverVars, bodyVars, clientVars, formatVars, routerVars>>

\* server.go:337-339
TranslateIn ==
    /\ rtPc = "sent"
    /\ rtData' = Incoming(rtVersion, rtData)
    /\ rtPc' = "normalized"
    /\ UNCHANGED <<rtVersion, rtValue0, rtData0, rtBody, rtErr, serverVars, bodyVars, clientVars, formatVars, routerVars>>

\* server.go:375-383
DecodeBack ==
    /\ rtPc = "normalized"
    /\ LET dec == Unmarshal(rtData, Body(Nil, Fresh(rtValue0), ""))
       IN  /\ rtBody' = dec.b
           /\ rtErr' = dec.err
    /\ rtPc' = "decoded"
    /\ UNCHANGED <<rtVersion, rtValue0, rtData0, rtData, serverVars, bodyVars, clientVars, formatVars, routerVars>>

-----------------------------------------------------------------------------
(* part_003: formatFaultXML, token by token *)

\* the number of elements inside Header explored
MaxHeaderChildren == 1

\* part_003:195, the startLevel Call passes
StartLevel == 1

\* the tokens d.Token() returns: a start element (Name.Space, Name.Local, the
\* number of its attributes), an end element, or character data
StartElement(space, local, attrs) ==
    [type |-> "StartElement", space |-> space, local |-> local, attrs |-> attrs, data |-> ""]
EndElement(space, local) ==
    [type |-> "EndElement", space |-> space, local |-> local, attrs |-> 0, data |-> ""]
CharData(data) ==
    [type |-> "CharData", space |-> "", local |-> "", attrs |-> 0, data |-> data]

\* the tokens of <local>data</local> and of <local>inner</local>
Leaf(space, local, data) == <<StartElement(space, local, 0), CharData(data), EndElement(space, local)>>
Wrapped(space, local, attrs, inner) ==
    <<StartElement(space, local, attrs)>> \o inner \o <<EndElement(space, local)>>

RECURSIVE Flatten(_)
Flatten(seqs) == IF seqs = <<>> THEN <<>> ELSE Head(seqs) \o Flatten(Tail(seqs))

\* what a peer may put inside Header, and the fields of its Fault
HeaderEntries == {Leaf(OtherNamespace, "TraceId", "42"), Leaf(OtherNamespace, "Security", "token")}
FaultFields ==
    { <<Leaf("", "faultstring", "boom")>>,
      <<Leaf("", "faultcode", "Server"), Leaf("", "faultstring", "boom")>> }

\* rawBody at part_003:195: an envelope, in the SOAP 1.1 namespace after line
\* 177, whose Body holds a Fault, with or without a Header
FaultDocument(hasHeader, entries, fields) ==
    Wrapped(NamespaceSoap11, "Envelope", 1,
            (IF hasHeader THEN Wrapped(NamespaceSoap11, "Header", 0, Flatten(entries)) ELSE <<>>)
            \o Wrapped(NamespaceSoap11, "Body", 0,
                       Wrapped(NamespaceSoap11, "Fault", 0, Flatten(fields))))

FaultDocuments ==
    {FaultDocument(TRUE, h, f) : h \in SeqsUpTo(HeaderEntries, MaxHeaderChildren), f \in FaultFields}
    \cup {FaultDocument(FALSE, <<>>, f) : f \in FaultFields}

RECURSIVE Repeat(_, _)
Repeat(str, n) == IF n = 0 THEN "" ELSE str \o Repeat(str, n - 1)

\* part_003:213-219, what ind() writes
ind(level) == Repeat("\t", IF level - StartLevel - 1 > 0 THEN level - StartLevel - 1 ELSE 0)

\* part_003:220-222, what lf() writes
lf == "\n"

\* part_003:270, strings.Trim(out, " \n") on the sequence of writes: the
\* writes made only of blanks and newlines are dropped at both ends
Blank(str) == str \in {"", " ", "\n"}

RECURSIVE TrimLeft(_)
TrimLeft(writes) ==
    IF writes = <<>> THEN <<>>
    ELSE IF Blank(Head(writes)) THEN TrimLeft(Tail(writes))
    ELSE writes

RECURSIVE TrimRight(_)
TrimRight(writes) ==
    IF writes = <<>> THEN <<>>
    ELSE IF Blank(writes[Len(writes)]) THEN TrimRight(SubSeq(writes, 1, Len(writes) - 1))
    ELSE writes

RECURSIVE Join(_)
Join(writes) == IF writes = <<>> THEN "" ELSE Head(writes) \o Join(Tail(writes))

\* a tag written to out: its text, the element it belongs to and the elements
\* open around that element
Tag(text, local, open) == [text |-> text, local |-> local, open |-> open]

FormatIdle ==
    /\ fXml = <<>>
    /\ fTokens = <<>>
    /\ fLevel = 0
    /\ fOut = <<>>
    /\ fLastWasStart = FALSE
    /\ fLastWasEnd = FALSE
    /\ fOpen = <<>>
    /\ fTags = <<>>
    /\ fResult = ""
    /\ fPc = "idle"

\* part_003:202-225: formatFaultXML is entered
FormatInit ==
    /\ fXml \in FaultDocuments
    /\ fTokens = fXml
    /\ fLevel = 0
    /\ fOut = <<>>
    /\ fLastWasStart = FALSE
    /\ fLastWasEnd = FALSE
    /\ fOpen = <<>>
    /\ fTags = <<>>
    /\ fResult = ""
    /\ fPc = "loop"

\* part_003:229-245: the token is a StartElement
FormatStartElement ==
    /\ fPc = "loop"
    /\ fTokens # <<>>
    /\ Head(fTokens).type = "StartElement"
    /\ LET se == Head(fTokens)
           elementName == se.local
       IN  /\ fOut' = fOut
                      \o (IF fLastWasEnd \/ fLastWasStart THEN <<lf>> ELSE <<>>)
                      \o <<ind(fLevel)>>
                      \o (IF fLevel > StartLevel THEN <<"<" \o elementName, ">">> ELSE <<>>)
           /\ fTags' = IF fLevel > StartLevel
                       THEN Append(fTags, Tag("<" \o elementName \o ">", elementName, fOpen))
                       ELSE fTags
           /\ fOpen' = Append(fOpen, elementName)
    /\ fLastWasStart' = TRUE
    /\ fLastWasEnd' = FALSE
    /\ fLevel' = fLevel + 1
    /\ fTokens' = Tail(fTokens)
    /\ UNCHANGED <<fXml, fResult, fPc, serverVars, bodyVars, clientVars, codecVars, routerVars>>

\* part_003:246-253: the token is CharData (the text holds nothing to escape)
FormatCharData ==
    /\ fPc = "loop"
    /\ fTokens # <<>>
    /\ Head(fTokens).type = "CharData"
    /\ fOut' = Append(fOut, Head(fTokens).data)
    /\ fLastWasStart' = FALSE
    /\ fLastWasEnd' = FALSE
    /\ fTokens' = Tail(fTokens)
    /\ UNCHANGED <<fXml, fLevel, fOpen, fTags, fResult, fPc, serverVars, bodyVars, clientVars, codecVars, routerVars>>

\* part_003:254-266: the token is an EndElement
FormatEndElement ==
    /\ fPc = "loop"
    /\ fTokens # <<>>
    /\ Head(fTokens).type = "EndElement"
    /\ LET end == Head(fTokens)
           level == fLevel - 1
           endTagName == end.local
           around == SubSeq(fOpen, 1, Len(fOpen) - 1)
       IN  /\ fLevel' = level
           /\ fOut' = fOut
                      \o (IF fLastWasEnd THEN <<lf, ind(level)>> ELSE <<>>)
                      \o (IF level > StartLevel THEN <<"</" \o endTagName \o ">">> ELSE <<>>)
           /\ fTags' = IF level > StartLevel
                       THEN Append(fTags, Tag("</" \o endTagName \o ">", endTagName, around))
                       ELSE fTags
           /\ fOpen' = around
    /\ fLastWasEnd' = TRUE
    /\ fLastWasStart' = FALSE
    /\ fTokens' = Tail(fTokens)
    /\ UNCHANGED <<fXml, fResult, fPc, serverVars, bodyVars, clientVars, codecVars, routerVars>>

\* part_003:227 and 270: d.Token() has no more tokens, out is trimmed and returned
FormatReturn ==
    /\ fPc = "loop"
    /\ fTokens = <<>>
    /\ fResult' = Join(TrimRight(TrimLeft(fOut)))
    /\ fPc' = "returned"
    /\ UNCHANGED <<fXml, fTokens, fLevel, fOut, fLastWasStart, fLastWasEnd, fOpen, fTags,
                   serverVars, bodyVars, clientVars, codecVars, routerVars>>

-----------------------------------------------------------------------------
(* server.go: ServeHTTP, step by step, for several requests at a time *)

\* the number of requests in flight explored
MaxRequests == 2

RequestIds == 1 .. MaxRequests

\* the locals of one call of ServeHTTP (server.go:323-421): where it stands,
\* the request, soapRequestBytes, probeEnvelope.Body and its
\* SOAPBodyContentType, actionHandler, the reference held by `request`,
\* w, what the handler returned, the marshalled response; and, as history,
\* the reference typed-decoded into, the reference passed to the handler,
\* whether the handler wrote to w, and the steps taken so far
NewServe ==
    [pc |-> "new", r |-> NoRequest, soapRequestBytes |-> EmptyBytes, probed |-> NoBody, t |-> "",
     actionHandler |-> NoHandler, request |-> 0, w |-> NewResponseWriter,
     response |-> Nil, err |-> "", xmlBytes |-> EmptyBytes,
     into |-> 0, arg |-> 0, wrote |-> FALSE, steps |-> <<>>]

\* lines 327-331 with one responseWriter kept for all calls
Store_OneWriter(i, q) == [j \in DOMAIN reqs |-> IF j = i THEN q ELSE [reqs[j] EXCEPT !.w = q.w]]

\* server.go:323-331: each call of ServeHTTP has locals of its own
Store(i, q) == [reqs EXCEPT ![i] = q]

\* a request factory handing out one object again and again
NewObject_Same(i) == 1

\* server_test.go:22-24: a request factory returns a new object at each call;
\* the reference is named after the call
NewObject(i) == i

\* the call ends with the Fault of handleError (server.go:288-306)
Fail(q, err) == [q EXCEPT !.pc = "done", !.w = handleError(err, q.w)]

Step(q, pc1, names) == [q EXCEPT !.pc = pc1, !.steps = @ \o names]

\* lines 376-390 calling the handler whatever the decode returned
AfterDecode_Always(q, err) == [Step(q, "handler", <<"Invoke">>) EXCEPT !.arg = q.request]

\* server.go:384-390: the handler is called with `request` unless the decode failed
AfterDecode(q, err) ==
    IF err # "" THEN Fail(q, "could not unmarshal request:: " \o err)
    ELSE [Step(q, "handler", <<"Invoke">>) EXCEPT !.arg = q.request]

\* no call of ServeHTTP is followed
RouterIdle ==
    /\ reqs = <<>>
    /\ objects = <<>>

-----------------------------------------------------------------------------
(* the registrations and the requests explored with several requests in flight *)

RouterRegistrations ==
    { <<"/pathTo", "testPostAction", "fooRequest", "newFooRequest", "hello">>,
      <<"/pathTo", "testPostAction", "fooRequest", "newFooRequest", "env">>,
      <<"/pathTo", "testPostAction", "barRequest", "newFooRequest", "hello">> }

RouterRequests ==
    { Request("POST", FALSE, "/pathTo", "testPostAction",
              Xml("SOAP", NamespaceSoap11, TRUE, <<FooElement(NamespaceSoap11, "i am foo")>>)),
      Request("POST", FALSE, "/pathTo", "testPostAction",
              Xml("soap12", NamespaceSoap12, TRUE, <<FooElement(NamespaceSoap12, "hello world")>>)),
      Request("POST", FALSE, "/pathTo", "testPostAction",
              Xml("SOAP", NamespaceSoap11, TRUE, <<BarElement(NamespaceSoap11, "i am foo")>>)),
      Request("POST", FALSE, "/pathTo", "testPostAction", Garbage("")),
      Request("POST", FALSE, "/pathTo", "otherAction",
              Xml("SOAP", NamespaceSoap11, TRUE, <<FooElement(NamespaceSoap11, "i am foo")>>)),
      Request("POST", FALSE, "/other", "testPostAction", Garbage("")),
      Request("POST", TRUE, "/pathTo", "testPostAction", EmptyBytes),
      Request("GET", FALSE, "/pathTo", "testPostAction", EmptyBytes) }

\* what handler "env" may return with several requests in flight
RouterResponses == {FooResponse("done")}

-----------------------------------------------------------------------------
(* the steps of ServeHTTP *)

\* no call of ServeHTTP has begun
NoneStarted == \A i \in DOMAIN reqs : reqs[i].pc = "new"

RouterInit ==
    /\ reqs = [i \in RequestIds |-> NewServe]
    /\ objects = [i \in RequestIds |-> Nil]

\* server.go:267-270, called before the server is started
RouterUseSoap12 ==
    /\ NoneStarted
    /\ ServerUseSoap12

\* server.go:272-286, called before the server is started
RouterRegisterHandler(path, action, messageType, requestFactory, operationHandlerFunc) ==
    /\ NoneStarted
    /\ RegisterHandler(path, action, messageType, requestFactory, operationHandlerFunc)

\* server.go:323-344 and 417-420: the request arrives, its body is read and
\* normalised
RouterReceive(i, req) ==
    LET q == [reqs[i] EXCEPT !.r = req]
    IN  /\ reqs[i].pc = "new"
        /\ reqs' = Store(i,
              IF req.method # "POST"
              THEN Fail(q, "this is a soap service - you have to POST soap requests")
              ELSE LET read == [Step(q, "read", <<"ReceiveBody", "NamespaceNormalize">>)
                                  EXCEPT !.soapRequestBytes = Normalize(req.body)]
                   IN  IF req.readErr THEN Fail(read, "could not read POST:: unexpected EOF")
                       ELSE read)
        /\ UNCHANGED <<objects, serverVars, bodyVars, clientVars, codecVars, formatVars>>

\* server.go:345-374: the path and the action are looked up, the body is
\* probed and the name of its element is looked up
RouterResolve(i) ==
    LET q == reqs[i]
        probe == Probe(q.soapRequestBytes)
        t == probe.b.SOAPBodyContentType
        q1 == [Step(q, "resolved", <<"ResolvePath", "ResolveAction", "ProbeType">>) EXCEPT !.probed = probe.b]
        q2 == [Step(q1, "resolved", <<"ResolveHandler">>) EXCEPT !.t = t]
    IN  /\ q.pc = "read"
        /\ reqs' = Store(i,
              IF ~HasPath(q.r.path)
              THEN Fail(Step(q, "read", <<"ResolvePath">>), ErrUnknownPath(q.r.path))
              ELSE IF ~HasAction(q.r.path, q.r.action)
              THEN Fail(Step(q, "read", <<"ResolvePath", "ResolveAction">>), ErrUnknownAction(q.r.action))
              ELSE IF probe.err # ""
              THEN Fail(q1, "could not probe soap body content:: " \o probe.err)
              ELSE IF ~HasEntry(q.r.path, q.r.action, t)
              THEN Fail(q2, ErrNoHandler(q.r, t))
              ELSE [q2 EXCEPT !.actionHandler = handlers[q.r.path][q.r.action][t]])
        /\ UNCHANGED <<objects, serverVars, bodyVars, clientVars, codecVars, formatVars>>

\* server.go:375: the entry's factory is called
RouterFactory(i) ==
    LET q == reqs[i]
        ref == NewObject(i)
    IN  /\ q.pc = "resolved"
        /\ objects' = [objects EXCEPT ![ref] = CallFactory(q.actionHandler.requestFactory)]
        /\ reqs' = Store(i, [Step(q, "made", <<"Factory">>) EXCEPT !.request = ref])
        /\ UNCHANGED <<serverVars, bodyVars, clientVars, codecVars, formatVars>>

\* server.go:376-390: the body is decoded into the factory's object, which
\* is then passed to the handler
RouterDecode(i) ==
    LET q == reqs[i]
        dec == Unmarshal(q.soapRequestBytes, Body(Nil, objects[q.request], ""))
    IN  /\ q.pc = "made"
        /\ objects' = [objects EXCEPT ![q.request] = IF dec.b.Content = Nil THEN @ ELSE dec.b.Content]
        /\ reqs' = Store(i, AfterDecode([Step(q, "made", <<"DecodeTyped">>) EXCEPT !.into = q.request], dec.err))
        /\ UNCHANGED <<serverVars, bodyVars, clientVars, codecVars, formatVars>>

\* the handler writes its own output to w (server.go:225-231)
RouterHandlerWrite(i) ==
    LET q == reqs[i]
    IN  /\ q.pc = "handler"
        /\ q.actionHandler.handler = "env"
        /\ ~q.wrote
        /\ reqs' = Store(i, [q EXCEPT !.w = Write(q.w, Garbage(""), "handler"), !.wrote = TRUE])
        /\ UNCHANGED <<objects, serverVars, bodyVars, clientVars, codecVars, formatVars>>

\* server_test.go:25-30: what handler "hello" returns to call i
HelloResponses(i) ==
    IF reqs[i].pc = "handler" THEN {FooResponse(Hello(objects[reqs[i].arg].val))} ELSE {}

\* server.go:390-395: the handler returns; handler "hello" answers for the
\* object it was passed, as that object stands
RouterHandlerReturn(i) ==
    LET q == reqs[i]
    IN  /\ q.pc = "handler"
        /\ \E response \in RouterResponses \cup HelloResponses(i), err \in HandlerErrors :
              LET q1 == [q EXCEPT !.response = response, !.err = err]
              IN  /\ q.actionHandler.handler = "hello"
                        => response = FooResponse(Hello(objects[q.arg].val)) /\ err = ""
                  /\ reqs' = Store(i, IF err # "" THEN Fail(q1, err) ELSE [q1 EXCEPT !.pc = "returned"])
        /\ UNCHANGED <<objects, serverVars, bodyVars, clientVars, codecVars, formatVars>>

\* server.go:397-412: unless the handler has written, the response is
\* marshalled, translated and written
RouterSend(i) ==
    LET q == reqs[i]
        xml == Marshal(Body(Nil, q.response, ""))
        xmlBytes == Outgoing(sSoapVersion, xml.bytes)
        w1 == IF xml.err # "" THEN handleError("could not marshal response:: " \o xml.err, q.w) ELSE q.w
    IN  /\ q.pc = "returned"
        /\ reqs' = Store(i,
              IF q.w.outputStarted THEN [q EXCEPT !.pc = "done"]
              ELSE [Step(q, "done", <<"EncodeResult", "Send">>)
                      EXCEPT !.xmlBytes = xmlBytes,
                             !.w = Write(addSOAPHeader(w1, sContentType), xmlBytes, "router")])
        /\ UNCHANGED <<objects, serverVars, bodyVars, clientVars, codecVars, formatVars>>

-----------------------------------------------------------------------------
(* specifications *)

vars == <<serverVars, bodyVars, clientVars, codecVars, formatVars, routerVars>>

\* the server and its requests
Init == ServerInit /\ BodyIdle /\ ClientIdle /\ CodecIdle /\ FormatIdle /\ RouterIdle

Next ==
    \/ ServerUseSoap11
    \/ ServerUseSoap12
    \/ \E p \in Paths, a \in Actions, t \in MessageTypes, f \in RequestFactories, h \in HandlerFuncs :
          RegisterHandler(p, a, t, f, h)
    \/ \E req \in Requests : ServeHTTP(req)
    \/ HandlerWrite
    \/ HandlerWriteHeader
    \/ HandlerHeader
    \/ \E response \in Responses \cup {FooResponse(Hello(request.val))}, err \in HandlerErrors :
          HandlerReturn(response, err)

Spec == Init /\ [][Next]_vars

\* one call of Body.UnmarshalXML
InitBody == ServerInit /\ BodyInit /\ ClientIdle /\ CodecIdle /\ FormatIdle /\ RouterIdle

NextBody == BodyEnter \/ BodyStartElement \/ BodyEndElement

SpecBody == InitBody /\ [][NextBody]_vars

\* a Client calling a Server of this package
InitCallServer == ServerInit /\ BodyIdle /\ ClientInit /\ CodecIdle /\ FormatIdle /\ RouterIdle

NextCallServer ==
    \/ ServerUseSoap11
    \/ ServerUseSoap12
    \/ \E p \in Paths, a \in Actions, t \in MessageTypes, f \in RequestFactories, h \in HandlerFuncs :
          RegisterHandler(p, a, t, f, h)
    \/ ClientUseSoap11
    \/ ClientUseSoap12
    \/ \E a \in CallActions, req \in CallRequests, response \in CallResponses : ClientCall(a, req, response)
    \/ Deliver
    \/ HandlerWrite
    \/ HandlerWriteHeader
    \/ \E response \in Responses \cup {FooResponse(Hello(request.val))}, err \in HandlerErrors :
          HandlerReturn(response, err)
    \/ ClientReceive

SpecCallServer == InitCallServer /\ [][NextCallServer]_vars

\* a Client whose transport is a stub
InitCall == ServerInit /\ BodyIdle /\ ClientInit /\ CodecIdle /\ FormatIdle /\ RouterIdle

NextCall ==
    \/ ClientUseSoap11
    \/ ClientUseSoap12
    \/ \E a \in CallActions, req \in StubRequests, response \in StubResponses : ClientCall(a, req, response)
    \/ \E httpResponse \in HttpResponses : HTTPClientDoFn(httpResponse, "")
    \/ \E err \in TransportErrors : HTTPClientDoFn(NoResponse, err)

SpecCall == InitCall /\ [][NextCall]_vars

\* the codec pipeline alone
InitCodec == ServerInit /\ BodyIdle /\ ClientIdle /\ CodecInit /\ FormatIdle /\ RouterIdle

NextCodec == Encode \/ TranslateOut \/ TranslateIn \/ DecodeBack

SpecCodec == InitCodec /\ [][NextCodec]_vars

\* one call of formatFaultXML
InitFormat == ServerInit /\ BodyIdle /\ ClientIdle /\ CodecIdle /\ FormatInit /\ RouterIdle

NextFormat == FormatStartElement \/ FormatCharData \/ FormatEndElement \/ FormatReturn

SpecFormat == InitFormat /\ [][NextFormat]_vars

\* several requests in flight on a server whose registrations are done
InitServe == ServerInit /\ BodyIdle /\ ClientIdle /\ CodecIdle /\ FormatIdle /\ RouterInit

NextServe ==
    \/ RouterUseSoap12
    \/ \E k \in RouterRegistrations : RouterRegisterHandler(k[1], k[2], k[3], k[4], k[5])
    \/ \E i \in RequestIds, req \in RouterRequests : RouterReceive(i, req)
    \/ \E i \in RequestIds : RouterResolve(i)
    \/ \E i \in RequestIds : RouterFactory(i)
    \/ \E i \in RequestIds : RouterDecode(i)
    \/ \E i \in RequestIds : RouterHandlerWrite(i)
    \/ \E i \in RequestIds : RouterHandlerReturn(i)
    \/ \E i \in RequestIds : RouterSend(i)

SpecServe == InitServe /\ [][NextServe]_vars

-----------------------------------------------------------------------------
(* reading a response as its peer does *)

\* part_003:177-188 (and server_test.go:61-67): the namespace is normalised
\* and the envelope decoded into dest
PeerDecode(bytes, dest) == Unmarshal(replaceSoap12to11(bytes), Body(Nil, dest, ""))

\* the bytes are one envelope whose Body holds a Fault and nothing else
IsFaultEnvelope(bytes) ==
    /\ bytes.kind = "xml"
    /\ bytes.hasBody
    /\ Len(bytes.children) = 1
    /\ bytes.children[1].local = "Fault"
    /\ bytes.children[1].ns = bytes.ns
    /\ bytes.ns \in {NamespaceSoap11, NamespaceSoap12}

FaultString(bytes) == PeerDecode(bytes, dummyContent).b.Fault.val

\* the response is a single write of a Fault envelope with this faultstring
AnsweredFault(str) ==
    /\ Len(w.writes) = 1
    /\ w.writes[1].by = "router"
    /\ IsFaultEnvelope(w.writes[1].bytes)
    /\ FaultString(w.writes[1].bytes) = str

HandlerWrote == \E i \in DOMAIN w.writes : w.writes[i].by = "handler"
RouterWrote == \E i \in DOMAIN w.writes : w.writes[i].by = "router"

\* the request is a POST whose body was read
Routed == pc # "idle" /\ r.method = "POST" /\ ~r.readErr

\* the handler has returned (response, nil)
ReturnedNil ==
    /\ pc = "done"
    /\ calls # <<>>
    /\ calls[Len(calls)].fn = "return"
    /\ calls[Len(calls)].arg.type # "error"

Returned == calls[Len(calls)].arg

-----------------------------------------------------------------------------
(* Properties of the dispatch router *)

\* the request's bytes as the router decodes them, and their single Body child
Bytes == Normalize(r.body)
HasOneChild == Bytes.kind = "xml" /\ Bytes.ns = NamespaceSoap11 /\ Bytes.hasBody /\ Len(Bytes.children) = 1
Inner == Bytes.children[1]

\* the request matches a registered triple and decodes into its request object
Matches ==
    /\ Routed
    /\ HasOneChild
    /\ HasEntry(r.path, r.action, Inner.local)
    /\ LET dec == Unmarshal(Bytes, Body(Nil, CallFactory(handlers[r.path][r.action][Inner.local].requestFactory), ""))
       IN  dec.err = "" /\ dec.b.Content # Nil

DecodedRequest ==
    Unmarshal(Bytes, Body(Nil, CallFactory(handlers[r.path][r.action][Inner.local].requestFactory), "")).b.Content

\* the matching triple's handler, and no other, was called with the decoded request
CalledMatching ==
    /\ Len(calls) >= 2
    /\ calls[2] = Invocation("handler", <<r.path, r.action, Inner.local>>,
                             handlers[r.path][r.action][Inner.local], DecodedRequest)
    /\ \A i \in DOMAIN calls : calls[i].fn = "handler" => i = 2

\* the response is exactly one envelope, written by the router, whose Body
\* content is the value the handler returned
AnsweredWith(response) ==
    /\ Len(w.writes) = 1
    /\ w.writes[1].by = "router"
    /\ w.writes[1].bytes.kind = "xml"
    /\ w.writes[1].bytes.hasBody
    /\ IF response = Nil
       THEN w.writes[1].bytes.children = <<>>
       ELSE LET dec == PeerDecode(w.writes[1].bytes, Obj(response.type, ""))
            IN  dec.err = "" /\ dec.b.Fault = Nil /\ dec.b.Content = response

Encodable(response) == Marshal(Body(Nil, response, "")).err = ""

\* C2 as stated: a POST matching a registered (path, action, messageType)
\* triple whose body decodes into the request object has that triple's
\* handler called with the decoded request, and whenever the handler returns
\* (response, nil) without writing output the router writes exactly one
\* envelope whose Body content is the response.
C2_AsStated ==
    Matches =>
        /\ CalledMatching
        /\ (ReturnedNil /\ ~HandlerWrote) => AnsweredWith(Returned)

\* C2 amended: as C2_AsStated, for a response the marshaller can encode; the
\* test's handler answers Foo = x with Bar = Hello "x".
C2_RoutedAndAnswered ==
    Matches =>
        /\ CalledMatching
        /\ (ReturnedNil /\ ~HandlerWrote /\ Encodable(Returned)) => AnsweredWith(Returned)
        /\ (ReturnedNil /\ actionHandler.handler = "hello" /\ Inner.field = "Foo")
              => AnsweredWith(FooResponse(Hello(Inner.val)))

C2_Witness ==
    /\ Matches
    /\ ReturnedNil
    /\ actionHandler.handler = "hello"
    /\ r.body = Xml("SOAP", NamespaceSoap11, TRUE, <<FooElement(NamespaceSoap11, "i am foo")>>)
    /\ AnsweredWith(FooResponse("Hello \"i am foo\""))

\* C3: for a POST whose body was read, the routing key is tested in the order
\* path, action, body element: an unregistered path is answered "unknown
\* path" whatever the action and the body; a registered path with an
\* unregistered action is answered "unknown action" whatever the body; the
\* body is probed, and "no action handler for content type" answered, only
\* when path and action are both registered; the three faults differ.
C3_RoutingOrder ==
    Routed =>
        /\ ~HasPath(r.path) => AnsweredFault("unknown path " \o Quote(r.path))
        /\ (HasPath(r.path) /\ ~HasAction(r.path, r.action))
              => AnsweredFault("unknown action " \o Quote(r.action))
        /\ probed # NoBody => HasAction(r.path, r.action)
        /\ \A t \in MessageTypes \cup {"Fault"} :
              /\ AnsweredFault("no action handler for content type: " \o Quote(t)) => HasAction(r.path, r.action)
              /\ "no action handler for content type: " \o Quote(t)
                    \notin {"unknown path " \o Quote(r.path), "unknown action " \o Quote(r.action)}
        /\ "unknown path " \o Quote(r.path) # "unknown action " \o Quote(r.action)

\* an unparseable body sent to a registered path with an unregistered action
C3_Witness ==
    /\ Routed
    /\ HasPath(r.path)
    /\ ~HasAction(r.path, r.action)
    /\ r.body = Garbage("")
    /\ AnsweredFault("unknown action " \o Quote(r.action))

\* C4 as stated: a POST to a registered path and action whose Body inner
\* element has a local name N without an entry under that path and action is
\* answered with the Fault: no action handler for content type: "N", and no
\* request factory and no handler is called.
C4_AsStated ==
    (Routed /\ HasAction(r.path, r.action) /\ HasOneChild /\ Probe(Bytes).err = ""
        /\ ~HasEntry(r.path, r.action, Inner.local))
    => /\ AnsweredFault("no action handler for content type: " \o Quote(Inner.local))
       /\ calls = <<>>

\* C4 amended: the same, for an inner element that is not the SOAP 1.1 Fault
\* element (a Fault element is routed under the empty name).
C4_NoHandlerFault ==
    (Routed /\ HasAction(r.path, r.action) /\ HasOneChild /\ Probe(Bytes).err = ""
        /\ ~IsFaultElement(Inner)
        /\ ~HasEntry(r.path, r.action, Inner.local))
    => /\ AnsweredFault("no action handler for content type: " \o Quote(Inner.local))
       /\ calls = <<>>

\* server_test.go:71-87 with another entry registered under the same path and action
C4_Witness ==
    /\ Routed
    /\ HasEntry(r.path, r.action, "fooRequest")
    /\ ~HasEntry(r.path, r.action, "barRequest")
    /\ r.body = Xml("SOAP", NamespaceSoap11, TRUE, <<BarElement(NamespaceSoap11, "i am foo")>>)
    /\ AnsweredFault("no action handler for content type: \"barRequest\"")
    /\ calls = <<>>

\* C5 as stated: once the handler has written to the response, the router
\* writes nothing further, whether the handler returns a nil or a non-nil error.
C5_AsStated == HandlerWrote => ~RouterWrote

\* the request failed: it was not handled, or the handler returned an error,
\* or its response could not be encoded
Failed ==
    /\ pc = "done"
    /\ \/ calls = <<>>
       \/ calls[Len(calls)].fn # "return"
       \/ Returned.type = "error"
       \/ ~Encodable(Returned)

\* C6 as stated: on every failure path the response is exactly one write of
\* one envelope whose Body holds only a Fault.
C6_AsStated ==
    Failed => /\ Len(w.writes) = 1
              /\ IsFaultEnvelope(w.writes[1].bytes)

NamespaceOf(version) == IF version = SoapVersion12 THEN NamespaceSoap12 ELSE NamespaceSoap11
ContentTypeOf(version) == IF version = SoapVersion12 THEN SoapContentType12 ELSE SoapContentType11

\* C7 as stated: every Fault envelope the router writes has the namespace and
\* the content-type of the server's active SOAP version.
C7_AsStated ==
    \A i \in DOMAIN w.writes :
        (w.writes[i].by = "router" /\ IsFaultEnvelope(w.writes[i].bytes))
        => /\ w.writes[i].bytes.ns = NamespaceOf(sSoapVersion)
           /\ w.writes[i].contentType = ContentTypeOf(sSoapVersion)

-----------------------------------------------------------------------------
(* Properties of a Client calling a Server *)

\* C1 as stated: with the entry (/pathTo, testPostAction, fooRequest) of
\* server_test.go registered and both sides on the same SOAP version, a Call
\* with action testPostAction and request {Foo: "hello world"} returns a nil
\* error and leaves Bar = Hello "hello world" in the response destination.
C1_AsStated ==
    (/\ callPc = "returned"
     /\ url = "/pathTo"
     /\ call.soapAction = "testPostAction"
     /\ call.request = FooRequest("hello world")
     /\ cSoapVersion = sSoapVersion
     /\ HasEntry("/pathTo", "testPostAction", "fooRequest")
     /\ handlers["/pathTo"]["testPostAction"]["fooRequest"].handler = "hello")
    => /\ result.err = ""
       /\ result.httpResponse
       /\ result.response = FooResponse("Hello \"hello world\"")

-----------------------------------------------------------------------------
(* Properties of Body.UnmarshalXML *)

\* the token loop of the step machine and the operator Loop agree
LoopAgrees ==
    bodyPc = "returned" =>
        /\ bodyErr = UnmarshalXML(body0, tokens0).err
        /\ body = UnmarshalXML(body0, tokens0).b

First == tokens0[1]

\* the element is named Fault in the SOAP 1.1 envelope namespace
IsSoap11Fault(se) == se.local = "Fault" /\ se.ns = NamespaceSoap11

\* the first start element has been handed to the loop's switch
FirstRead ==
    /\ tokens0 # <<>>
    /\ \/ consumed
       \/ bodyPc = "returned" /\ body0.Content # Nil

\* C8: after every Body decode that returns nil, exactly one of Body.Fault and
\* Body.Content is non-nil, for a Fault body, an application body and a Body
\* without child element alike.
C8_ExactlyOne ==
    (bodyPc = "returned" /\ bodyErr = "") => ((body.Fault = Nil) # (body.Content = Nil))

\* a Fault body decoded without error
C8_Witness ==
    /\ bodyPc = "returned"
    /\ bodyErr = ""
    /\ tokens0 = <<FaultElement(NamespaceSoap11, "boom")>>
    /\ body.Fault = Fault("boom")
    /\ body.Content = Nil

\* C9: a Body with two or more child start elements, the first of which
\* decodes, is answered with the error "Found multiple elements inside SOAP
\* body", whatever the elements are.
C9_MultipleElements ==
    (/\ bodyPc = "returned"
     /\ Len(tokens0) >= 2
     /\ body0.Content # Nil
     /\ DecodeElement(IF IsSoap11Fault(First) THEN Fault("") ELSE body0.Content, First).err = "")
    => bodyErr = "Found multiple elements inside SOAP body; not wrapped-document/literal WS-I compliant"

\* a Fault followed by an application element
C9_Witness ==
    /\ bodyPc = "returned"
    /\ tokens0 = <<FaultElement(NamespaceSoap11, "boom"), FooElement(NamespaceSoap11, "i am foo")>>
    /\ body0.Content = FooRequest("")
    /\ bodyErr = ErrMultiple

\* C10: the first start element inside Body decides the outcome, and nothing
\* read after it changes it: a Fault in the SOAP 1.1 namespace sets
\* Body.Fault, clears Body.Content and leaves SOAPBodyContentType as it was;
\* any other element is decoded into the supplied Content, leaves Body.Fault
\* nil and sets SOAPBodyContentType to its local name.
C10_FirstElementDecides ==
    FirstRead =>
        IF IsSoap11Fault(First)
        THEN /\ body.Fault # Nil
             /\ First.wf => body.Fault = Fault(First.val)
             /\ body.Content = Nil
             /\ body.SOAPBodyContentType = body0.SOAPBodyContentType
        ELSE /\ body.Fault = Nil
             /\ body.SOAPBodyContentType = First.local
             /\ body.Content = DecodeElement(body0.Content, First).v
             /\ body.Content.type = body0.Content.type

\* a Fault element of the SOAP 1.2 namespace is decoded as application content
C10_Witness ==
    /\ bodyPc = "returned"
    /\ bodyErr = ""
    /\ tokens0 = <<FaultElement(NamespaceSoap12, "boom")>>
    /\ body0.Content = dummyContent
    /\ body.Fault = Nil
    /\ body.SOAPBodyContentType = "Fault"

-----------------------------------------------------------------------------
(* Properties of the namespace translation and of the codec pipeline *)

\* the bytes name this namespace URI somewhere
ContainsUri(data, uri) ==
    \/ data.ns = uri
    \/ \E i \in DOMAIN data.children : data.children[i].ns = uri \/ data.children[i].val = uri

\* both translations have been applied, 1.1 to 1.2 and then 1.2 to 1.1
TranslatedBack == rtPc \in {"normalized", "decoded"} /\ rtVersion = SoapVersion12

\* C12 as stated: replaceSoap12to11(replaceSoap11to12(b)) = b for every byte
\* string b, those that contain the SOAP 1.2 namespace URI included.
C12_AsStated == TranslatedBack => rtData = rtData0

\* C12: replaceSoap12to11(replaceSoap11to12(b)) = b for every byte string b
\* that does not contain the SOAP 1.2 namespace URI.
C12_InverseWithout12 ==
    (TranslatedBack /\ ~ContainsUri(rtData0, NamespaceSoap12)) => rtData = rtData0

\* bytes naming the SOAP 1.1 namespace in an element and in a text came back
C12_Witness ==
    /\ TranslatedBack
    /\ rtValue0 = Nil
    /\ rtData0 = Xml("soap", NamespaceSoap11, TRUE, <<Element(NamespaceSoap11, "fooRequest", "Foo", NamespaceSoap11, TRUE)>>)
    /\ rtData = rtData0

\* C13 as stated: encoding an Envelope with Body content v and decoding the
\* bytes into a fresh destination of the type of v gives v back, with
\* Body.Fault nil, without translation (SOAP 1.1) and with both translations
\* in between (SOAP 1.2).
C13_AsStated ==
    (rtPc = "decoded" /\ rtValue0 # Nil)
    => /\ rtErr = ""
       /\ rtBody.Content = rtValue0
       /\ rtBody.Fault = Nil

-----------------------------------------------------------------------------
(* Properties of Client.Call over a stub transport *)

\* HTTPClientDoFn returned a response and Call has finished
Answered == callPc = "returned" /\ sent.n = 1 /\ got.err = ""

\* the bytes Call takes for the envelope: the body of a single-part response,
\* the first part that begins with <soap or <SOAP of a multipart one
EnvelopeBytes ==
    IF IsMultipart(got.httpResponse.mediaType)
    THEN LET soapy == {i \in DOMAIN got.httpResponse.parts : HasSoapPrefix(got.httpResponse.parts[i])}
         IN  IF soapy = {} THEN EmptyBytes
             ELSE got.httpResponse.parts[CHOOSE i \in soapy : \A j \in soapy : i <= j]
    ELSE got.httpResponse.body

\* the renderings of a Fault that follow "SOAP FAULT:" in the error text
FaultTexts == {formatFaultXML(replaceSoap12to11(b)) : b \in ResponseBodies \cup PartBodies}

IsFaultError(err) == \E f \in FaultTexts : err = "SOAP FAULT:\n" \o f

\* C11: whenever the envelope Call decodes from the response holds a Fault in
\* its Body, Call returns an error that starts with "SOAP FAULT:" and a nil
\* response, whatever the destination is, nil included.
C11_FaultIsError ==
    (/\ Answered
     /\ result.decoded
     /\ IsFaultEnvelope(EnvelopeBytes)
     /\ EnvelopeBytes.children[1].wf)
    => /\ IsFaultError(result.err)
       /\ ~result.httpResponse

\* a SOAP 1.2 Fault received with a nil destination
C11_Witness ==
    /\ Answered
    /\ call.response = Nil
    /\ got.httpResponse.body = FaultResponse("soap", NamespaceSoap12)
    /\ result.err = "SOAP FAULT:\n<Fault>\n\t<faultstring>boom</faultstring>\n</Fault>"
    /\ ~result.httpResponse

Multipart == IsMultipart(got.httpResponse.mediaType)

Parts == got.httpResponse.parts

\* no tag of the bytes is written with a name that starts with soap or SOAP
NoSoapTag(bytes) ==
    /\ ~StartsWithSoap(FirstTag(bytes))
    /\ \A i \in DOMAIN bytes.children : ~StartsWithSoap(bytes.children[i].local)

\* Call left the caller's response destination as it was
Untouched == result.response = call.response

\* C14 as stated: for a multipart response none of whose parts begins with
\* <soap or <SOAP, Call reads every part, returns a nil response and the error
\* "multipart message does not contain a soapy part", and does not write the
\* response destination.
C14_AsStated ==
    (Answered /\ Multipart /\ \A i \in DOMAIN Parts : ~StartsWithSoap(FirstTag(Parts[i])))
    => /\ result.partsRead = Len(Parts)
       /\ ~result.httpResponse
       /\ result.err = "multipart message does not contain a soapy part"
       /\ Untouched

\* C15: for a single-part response whose body is not empty and has no <soap
\* and no <SOAP in it, Call returns a nil response and the error "This is not
\* a SOAP-Message: " followed by the whole raw body, does not decode and does
\* not write the response destination.
C15_NotSoap ==
    (Answered /\ ~Multipart /\ got.httpResponse.body.kind # "empty" /\ NoSoapTag(got.httpResponse.body))
    => /\ ~result.httpResponse
       /\ result.err = "This is not a SOAP-Message: \n"
       /\ result.rawBody = got.httpResponse.body
       /\ ~result.decoded
       /\ Untouched

\* an envelope without tag prefix is refused
C15_Witness ==
    /\ Answered
    /\ got.httpResponse.body = LoveResponse("", NamespaceSoap11)
    /\ call.response = FooResponse("")
    /\ result.err = "This is not a SOAP-Message: \n"
    /\ result.rawBody = LoveResponse("", NamespaceSoap11)

\* C16: for a single-part response with an empty body, Call returns the
\* transport's response and a nil error, does not decode and leaves the
\* response destination as it was.
C16_EmptyBody ==
    (Answered /\ ~Multipart /\ got.httpResponse.body.kind = "empty")
    => /\ result.httpResponse
       /\ result.err = ""
       /\ result.bodyRead
       /\ ~result.decoded
       /\ Untouched

\* an empty body received with a destination to fill
C16_Witness ==
    /\ Answered
    /\ got.httpResponse = HttpResponse("text/xml", EmptyBytes, <<>>, 200)
    /\ call.response = FooResponse("")
    /\ result.httpResponse
    /\ result.response = FooResponse("")

\* C17: a Call hands its request to HTTPClientDoFn at most once; when
\* HTTPClientDoFn returns an error, Call returns a nil response and that
\* error, having read no body, no part, and decoded nothing.
C17_SendOnce ==
    /\ sent.n <= 1
    /\ (callPc = "returned" /\ got.err # "")
       => /\ sent.n = 1
          /\ result.err = got.err
          /\ ~result.httpResponse
          /\ ~result.bodyRead
          /\ result.partsRead = 0
          /\ ~result.decoded
          /\ Untouched

\* the transport failed
C17_Witness ==
    /\ callPc = "returned"
    /\ sent.n = 1
    /\ got.err = "dial tcp: connection refused"
    /\ result.err = "dial tcp: connection refused"
    /\ ~result.httpResponse

\* the response with its body and its parts in their SOAP 1.1 form
In11(httpResponse) ==
    [httpResponse EXCEPT !.body = replaceSoap12to11(@),
                         !.parts = [i \in DOMAIN @ |-> replaceSoap12to11(@[i])]]

\* C19: whatever the client's version, a response envelope in the SOAP 1.2
\* namespace, single-part or the SOAP part of a multipart response, is
\* answered exactly as its SOAP 1.1 form; an application element that fits
\* the destination gives a nil error, a non-nil response and the destination
\* filled.
C19_ResponseNormalized ==
    (Answered /\ result.decoded /\ EnvelopeBytes.ns = NamespaceSoap12)
    => /\ result = Receive(In11(got.httpResponse), call.response)
       /\ (EnvelopeBytes.children = <<LoveElement>> /\ call.response = FooResponse(""))
          => /\ result.err = ""
             /\ result.httpResponse
             /\ result.response = FooResponse("I love deadlines.")

\* a client left in SOAP 1.1 mode reads the SOAP 1.2 part of a multipart response
C19_Witness ==
    /\ Answered
    /\ cSoapVersion = SoapVersion11
    /\ Multipart
    /\ Parts = <<Garbage(""), LoveResponse("soap12", NamespaceSoap12)>>
    /\ call.response = FooResponse("")
    /\ result.err = ""
    /\ result.httpResponse
    /\ result.response = FooResponse("I love deadlines.")

-----------------------------------------------------------------------------
(* Properties of the versions *)

\* the same request with its body in the SOAP 1.1 form
Like11 == Dispatch([r EXCEPT !.body = replaceSoap12to11(@)])

\* C18 as stated: whatever the server's version, a request envelope in the
\* SOAP 1.2 namespace is probed, routed and handled exactly like the same
\* envelope in the SOAP 1.1 namespace.
C18_AsStated ==
    (Routed /\ HasAction(r.path, r.action) /\ r.body.kind = "xml" /\ r.body.ns = NamespaceSoap12)
    => /\ probed = Like11.probed
       /\ actionHandler = Like11.entry
       /\ request = Like11.request

\* the one envelope the router wrote for a response the handler returned
SuccessWritten ==
    /\ ReturnedNil
    /\ Encodable(Returned)
    /\ ~HandlerWrote

\* C20: every envelope the client sends, and every envelope the server writes
\* for a handler's response, has the namespace and the Content-Type of the
\* sender's version at that moment, after any sequence of UseSoap11 and
\* UseSoap12 calls.
C20_VersionOnTheWire ==
    /\ sent.n > 0
       => /\ sent.request.body.ns = NamespaceOf(cSoapVersion)
          /\ sent.contentType = ContentTypeOf(cSoapVersion)
    /\ SuccessWritten
       => /\ Len(w.writes) = 1
          /\ w.writes[1].bytes.kind = "xml"
          /\ w.writes[1].bytes.ns = NamespaceOf(sSoapVersion)
          /\ w.writes[1].contentType = ContentTypeOf(sSoapVersion)

\* a SOAP 1.2 client was answered by a SOAP 1.2 server
C20_Witness ==
    /\ cSoapVersion = SoapVersion12
    /\ sent.n = 1
    /\ sent.request.body.ns = NamespaceSoap12
    /\ sent.contentType = SoapContentType12
    /\ sSoapVersion = SoapVersion12
    /\ SuccessWritten
    /\ w.writes[1].bytes = Xml("", NamespaceSoap12, TRUE, <<Element(NamespaceSoap12, "FooResponse", "Bar", Hello("hello world"), TRUE)>>)
    /\ w.writes[1].contentType = SoapContentType12

-----------------------------------------------------------------------------
(* Properties of the probe *)

\* what the probe of lines 357-363 can fail with
ProbeErrors ==
    {ErrSyntax, ErrEOF, ErrContentNil, ErrMultiple,
     "expected element <Envelope> in name space " \o NamespaceSoap11 \o " but have " \o NamespaceSoap12,
     "expected element <Envelope> in name space " \o NamespaceSoap11 \o " but have " \o OtherNamespace}

ProbeFailed == \E e \in ProbeErrors : AnsweredFault("could not probe soap body content:: " \o e)

\* the name the probe reports for the Body's single child
ProbedName == IF IsFaultElement(Inner) THEN "" ELSE Inner.local

\* the router went on to the lookup of line 370: the entry's factory was
\* called, or the lookup's fault was written
Resolved(t) ==
    IF HasEntry(r.path, r.action, t)
    THEN calls # <<>> /\ calls[1] = Invocation("requestFactory", <<r.path, r.action, t>>,
                                               handlers[r.path][r.action][t], Nil)
    ELSE AnsweredFault("no action handler for content type: " \o Quote(t)) /\ calls = <<>>

\* C23: for a POST to a registered path and action whose body is a
\* well-formed envelope with one well-formed Body child, the probe succeeds
\* whether the child is a Fault or an application element, no probe fault is
\* written, and the router goes on to the handler lookup (a Fault under the
\* empty name, an application element under its local name).
C23_ProbeAcceptsBoth ==
    (Routed /\ HasAction(r.path, r.action) /\ HasOneChild /\ Inner.wf)
    => /\ Probe(Bytes).err = ""
       /\ probed = Probe(Bytes).b
       /\ probed.SOAPBodyContentType = ProbedName
       /\ probed.Fault # Nil <=> IsFaultElement(Inner)
       /\ ~ProbeFailed
       /\ Resolved(ProbedName)

\* a Fault-shaped request reaches the lookup and is answered by it
C23_Witness ==
    /\ Routed
    /\ HasAction(r.path, r.action)
    /\ r.body = Xml("", NamespaceSoap11, TRUE, <<FaultElement(NamespaceSoap11, "boom")>>)
    /\ probed = Body(Fault("boom"), Nil, "")
    /\ AnsweredFault("no action handler for content type: \"\"")

-----------------------------------------------------------------------------
(* Properties of the responseWriter *)

\* the handler left a status code and a header, and nothing else, on w
OnlyHeaders == w.status = 202 /\ w.contentType # "" /\ ~HandlerWrote

\* C26: outputStarted is false when the handler is entered, is true exactly
\* when Write has been called on the request's responseWriter, and once true
\* stays true; WriteHeader and Header leave it alone, so that after a handler
\* that only sets a status code or a header and returns (response, nil) the
\* router still writes the response envelope.
C26_OutputStarted ==
    /\ [](w.outputStarted <=> w.writes # <<>>)
    /\ []((ReturnedNil /\ ~HandlerWrote /\ Encodable(Returned)) => AnsweredWith(Returned))
    /\ [][/\ (pc = "idle" /\ pc' = "handler") => ~w'.outputStarted
          /\ w.outputStarted => w'.outputStarted
          /\ (w'.status # w.status \/ w'.contentType # w.contentType) /\ w'.writes = w.writes
                => w'.outputStarted = w.outputStarted]_vars

\* the handler called WriteHeader and Header only, and the router answered
C26_Witness ==
    /\ ReturnedNil
    /\ OnlyHeaders
    /\ AnsweredWith(FooResponse("done"))

-----------------------------------------------------------------------------
(* Properties of the registry *)

Triples == Paths \X Actions \X MessageTypes

\* the entry a lookup of lines 345-374 finds for a triple, NoHandler if none
EntryOf(k) == IF HasEntry(k[1], k[2], k[3]) THEN handlers[k[1]][k[2]][k[3]] ELSE NoHandler

\* C28: the registry starts without entries; a RegisterHandler call makes the
\* entry of its triple the pair it was called with, whether or not the triple
\* had an entry, and leaves the entry (or the absence of an entry) of every
\* other triple as it was, triples sharing its path or its path and action
\* included; no other operation changes the registry. So the entry of a
\* triple is the pair of the last call made with it, and a triple never
\* registered has none.
C28_LastRegistrationWins ==
    /\ \A k \in Triples : EntryOf(k) = NoHandler
    /\ [][/\ \A k \in Triples, f \in RequestFactories, h \in HandlerFuncs :
                (pc' = "idle" /\ RegisterHandler(k[1], k[2], k[3], f, h))
                => /\ EntryOf(k)' = OperationHandler(f, h)
                   /\ \A other \in Triples \ {k} : EntryOf(other)' = EntryOf(other)
          /\ handlers' # handlers
                => \E k \in Triples, f \in RequestFactories, h \in HandlerFuncs :
                      RegisterHandler(k[1], k[2], k[3], f, h)]_vars

\* two triples sharing path and action, each with the pair it was registered with
C28_Witness ==
    /\ EntryOf(<<"/pathTo", "testPostAction", "fooRequest">>) = OperationHandler("newFooRequest", "env")
    /\ EntryOf(<<"/pathTo", "testPostAction", "">>) = OperationHandler("newFooRequest", "hello")
    /\ EntryOf(<<"/pathTo", "otherAction", "fooRequest">>) = NoHandler

-----------------------------------------------------------------------------
(* Properties of the empty body element name *)

\* the request is an envelope whose Body has no child element
EmptyBodied == Bytes.kind = "xml" /\ Bytes.ns = NamespaceSoap11 /\ Bytes.hasBody /\ Bytes.children = <<>>

\* the request is an envelope whose Body holds a SOAP 1.1 Fault
FaultShaped == HasOneChild /\ Inner.wf /\ IsFaultElement(Inner)

\* the entry registered under the empty messageType for the request's path and action
EmptyKey == <<r.path, r.action, "">>

\* C29: a Body without a child element decodes without error into a supplied
\* Content, leaving Fault nil, the Content as supplied and
\* SOAPBodyContentType empty. A POST to a registered path and action with such
\* a body, or with a Fault-shaped body, is looked up under the empty name: it
\* is answered with the fault no action handler for content type: "" and
\* nothing is called, unless an entry is registered under the empty
\* messageType, whose handler is then called with the factory's object
\* unfilled.
C29_EmptyName ==
    /\ \A c \in Contents \ {Nil} :
          Unmarshal(Xml("", NamespaceSoap11, TRUE, <<>>), Body(Nil, c, "")) = [b |-> Body(Nil, c, ""), err |-> ""]
    /\ (Routed /\ HasAction(r.path, r.action) /\ (EmptyBodied \/ FaultShaped))
       => /\ EmptyBodied => probed = Body(Nil, dummyContent, "")
          /\ probed.SOAPBodyContentType = ""
          /\ IF HasEntry(r.path, r.action, "")
             THEN /\ Len(calls) >= 2
                  /\ calls[2] = Invocation("handler", EmptyKey, EntryOf(EmptyKey),
                                           CallFactory(EntryOf(EmptyKey).requestFactory))
                  /\ request = CallFactory(EntryOf(EmptyKey).requestFactory)
             ELSE /\ AnsweredFault("no action handler for content type: \"\"")
                  /\ calls = <<>>

\* a Body without a child reaches the handler registered under the empty
\* messageType, which answers for an empty Foo
C29_Witness ==
    /\ Routed
    /\ EmptyBodied
    /\ EntryOf(EmptyKey) = OperationHandler("newFooRequest", "hello")
    /\ request = FooRequest("")
    /\ ReturnedNil
    /\ AnsweredWith(FooResponse("Hello \"\""))

-----------------------------------------------------------------------------
(* Properties of a response that does not decode *)

\* what Call decodes into: the caller's destination, or the placeholder
Destination == IF call.response = Nil THEN dummyContent ELSE call.response

\* the decode of the envelope Call took from the response, as xml.Unmarshal
\* performs it
EnvelopeDecode == PeerDecode(EnvelopeBytes, Destination)

\* C25: when the envelope Call takes from the response passes the SOAP tag
\* test and does not unmarshal (malformed, another root namespace, an element
\* the destination does not accept, several Body children), Call returns a
\* nil response and the error COULD NOT UNMARSHAL with the decoder's message;
\* and whenever Call returns a nil error after decoding, the decode had
\* succeeded and the destination is either as the caller supplied it or holds
\* the completely decoded content.
C25_DecodeFailureReturned ==
    /\ (Answered /\ result.decoded /\ EnvelopeDecode.err # "")
       => /\ ~result.httpResponse
          /\ result.err = "soap/client.go Call(): COULD NOT UNMARSHAL: " \o EnvelopeDecode.err \o "\n"
    /\ (Answered /\ result.decoded /\ result.err = "")
       => /\ EnvelopeDecode.err = ""
          /\ result.response \in {call.response, EnvelopeDecode.b.Content}

\* a Body with two children: the first has filled the destination when the
\* second is refused
C25_Witness ==
    /\ Answered
    /\ call.response = FooResponse("")
    /\ got.httpResponse.body = Xml("soap", NamespaceSoap11, TRUE, <<LoveElement, LoveElement>>)
    /\ result.response = FooResponse("I love deadlines.")
    /\ ~result.httpResponse
    /\ result.err = "soap/client.go Call(): COULD NOT UNMARSHAL: " \o ErrMultiple \o "\n"

-----------------------------------------------------------------------------
(* Properties of the Fault rendering *)

\* for a Fault response without a Header, the token loop returns the text
\* that formatFaultXML stands for in Decode
FormatAgrees ==
    (fPc = "returned" /\ fXml = FaultDocument(FALSE, <<>>, <<Leaf("", "faultstring", "boom")>>))
    => fResult = formatFaultXML(FaultResponse("soap", NamespaceSoap11))

\* the tag belongs to the Fault element of the Body or to an element inside it
InFaultSubtree(tag) ==
    LET path == Append(tag.open, tag.local)
    IN  Len(path) >= 3 /\ SubSeq(path, 1, 3) = <<"Envelope", "Body", "Fault">>

ChildOfHeader(tag) == tag.open # <<>> /\ tag.open[Len(tag.open)] = "Header"

\* C24 as stated: the rendering formatFaultXML returns for a Fault response
\* holds tags of the Fault subtree only (no Envelope, Header or Body tag and
\* no tag of a child of Header), each written as its local name between
\* angle brackets, without prefix or attribute.
C24_AsStated ==
    fPc = "returned"
    => \A i \in DOMAIN fTags :
          /\ InFaultSubtree(fTags[i])
          /\ fTags[i].local \notin {"Envelope", "Header", "Body"}
          /\ ~ChildOfHeader(fTags[i])
          /\ fTags[i].text \in {"<" \o fTags[i].local \o ">", "</" \o fTags[i].local \o ">"}

-----------------------------------------------------------------------------
(* Properties of requests in flight together *)

\* the response written when the request of call q is the only one the
\* server handles (lines 323-421 run through at once), its handler doing
\* what it did in call q
Alone(q) ==
    LET out == Dispatch(q.r)
        handlerW == IF q.wrote THEN Write(NewResponseWriter, Garbage(""), "handler") ELSE NewResponseWriter
        response == IF out.entry.handler = "hello" THEN FooResponse(Hello(out.request.val)) ELSE q.response
    IN  IF out.err # "" THEN handleError(out.err, NewResponseWriter)
        ELSE AfterHandler(response, q.err, handlerW)

\* call i has finished and answered with an envelope holding this response
Served(i, response) ==
    /\ reqs[i].pc = "done"
    /\ Len(reqs[i].w.writes) = 1
    /\ PeerDecode(reqs[i].w.writes[1].bytes, Obj(response.type, "")) = [b |-> Body(Nil, response, response.type), err |-> ""]

\* C21: with every RegisterHandler call made before the first request, no
\* step of ServeHTTP changes the registry, and the response of each of the
\* requests in flight together, however their steps interleave, is the
\* response the same request gets when it is handled alone.
C21_Isolated ==
    /\ [](\A i \in DOMAIN reqs : reqs[i].pc = "done" => reqs[i].w = Alone(reqs[i]))
    /\ [][reqs' # reqs => handlers' = handlers]_vars

\* two requests for one entry, each answered for its own Foo
C21_Witness ==
    /\ reqs[1].actionHandler = OperationHandler("newFooRequest", "hello")
    /\ reqs[2].actionHandler = OperationHandler("newFooRequest", "hello")
    /\ Served(1, FooResponse("Hello \"i am foo\""))
    /\ Served(2, FooResponse("Hello \"hello world\""))

-----------------------------------------------------------------------------
(* Properties of the order of the router's steps *)

\* the steps in the order of the code, the resolution of the routing key
\* split into its three lookups and the factory call named
CodeOrder ==
    <<"ReceiveBody", "NamespaceNormalize", "ResolvePath", "ResolveAction", "ProbeType",
      "ResolveHandler", "Factory", "DecodeTyped", "Invoke", "EncodeResult", "Send">>

IsPrefix(s, t) == Len(s) <= Len(t) /\ s = SubSeq(t, 1, Len(s))

\* the eight stages of the request state machine, and the stage a step is part of
Stages ==
    <<"ReceiveBody", "NamespaceNormalize", "ProbeType", "ResolveHandler", "DecodeTyped",
      "Invoke", "EncodeResult", "Send">>

StageOf(step) ==
    CASE step \in {"ResolvePath", "ResolveAction", "ResolveHandler"} -> "ResolveHandler"
      [] step = "Factory" -> "DecodeTyped"
      [] OTHER -> step

Rank(stage) == CHOOSE n \in DOMAIN Stages : Stages[n] = stage

InStageOrder(steps) ==
    \A j, k \in DOMAIN steps : j < k => Rank(StageOf(steps[j])) <= Rank(StageOf(steps[k]))

Invocations(q) == {j \in DOMAIN q.steps : q.steps[j] = "Invoke"}

\* the body element name of the request of call q, and the typed decode of
\* the request into a new object of the entry registered under that name
NameOf(q) == Probe(Normalize(q.r.body)).b.SOAPBodyContentType

TypedDecodeOf(q) ==
    Unmarshal(Normalize(q.r.body),
              Body(Nil, CallFactory(handlers[q.r.path][q.r.action][NameOf(q)].requestFactory), ""))

\* the handler is called at most once, and only for a POST whose body was
\* read, whose triple has an entry and whose typed decode succeeded; a
\* request that is not a POST takes no step and is answered with a Fault; a
\* failed typed decode is answered "could not unmarshal request" and the
\* handler is not called
HandlerReached(q) ==
    /\ Cardinality(Invocations(q)) <= 1
    /\ Invocations(q) # {}
       => /\ q.r.method = "POST"
          /\ ~q.r.readErr
          /\ Probe(Normalize(q.r.body)).err = ""
          /\ HasEntry(q.r.path, q.r.action, NameOf(q))
          /\ q.actionHandler = handlers[q.r.path][q.r.action][NameOf(q)]
          /\ TypedDecodeOf(q).err = ""
    /\ (q.pc # "new" /\ q.r.method # "POST")
       => /\ q.steps = <<>>
          /\ q.w = handleError("this is a soap service - you have to POST soap requests", NewResponseWriter)
    /\ (q.pc = "done" /\ "DecodeTyped" \in {q.steps[j] : j \in DOMAIN q.steps} /\ TypedDecodeOf(q).err # "")
       => /\ Invocations(q) = {}
          /\ q.w = handleError("could not unmarshal request:: " \o TypedDecodeOf(q).err, NewResponseWriter)

\* C22 as stated: the steps of a request occur in the order ReceiveBody,
\* NamespaceNormalize, ProbeType, ResolveHandler, DecodeTyped, Invoke,
\* EncodeResult, Send, and the handler is reached only as HandlerReached says.
C22_AsStated ==
    \A i \in DOMAIN reqs : InStageOrder(reqs[i].steps) /\ HandlerReached(reqs[i])

\* C22 amended: the steps occur in the order ReceiveBody, NamespaceNormalize,
\* path lookup, action lookup, ProbeType, body element lookup, factory call,
\* DecodeTyped, Invoke, EncodeResult, Send (the body is probed only after the
\* path and the action have been found); the handler is reached only as
\* HandlerReached says.
C22_StepOrder ==
    \A i \in DOMAIN reqs : IsPrefix(reqs[i].steps, CodeOrder) /\ HandlerReached(reqs[i])

\* one request went through every step while the typed decode of another failed
C22_Witness ==
    /\ reqs[1].pc = "done"
    /\ reqs[1].steps = CodeOrder
    /\ reqs[2].pc = "done"
    /\ reqs[2].steps = SubSeq(CodeOrder, 1, 8)
    /\ reqs[2].w = handleError("could not unmarshal request:: expected element type <fooRequest> but have <barRequest>",
                               NewResponseWriter)

-----------------------------------------------------------------------------
(* Properties of the request factory *)

StepsOf(q) == {q.steps[j] : j \in DOMAIN q.steps}

FactoryCalls(q) == {j \in DOMAIN q.steps : q.steps[j] = "Factory"}

\* the request of call q resolves to a registry entry
Resolves(q) ==
    /\ q.r.method = "POST"
    /\ ~q.r.readErr
    /\ HasAction(q.r.path, q.r.action)
    /\ Probe(Normalize(q.r.body)).err = ""
    /\ HasEntry(q.r.path, q.r.action, NameOf(q))

\* C27: a request that resolves to an entry has that entry's factory called
\* exactly once, right after the resolution and right before the typed
\* decode; the object the factory returned is the one decoded into and the
\* one passed to the handler, holding what this request's body decodes to; a
\* request that fails before the resolution has no factory called; and, the
\* factory returning a new object at each call, requests in flight together
\* are decoded into different objects, those for one entry included.
C27_FactoryPerRequest ==
    /\ \A i \in DOMAIN reqs :
          LET q == reqs[i]
          IN  /\ Cardinality(FactoryCalls(q)) <= 1
              /\ \A j \in FactoryCalls(q) :
                    /\ j > 1 /\ q.steps[j - 1] = "ResolveHandler"
                    /\ q.actionHandler = handlers[q.r.path][q.r.action][NameOf(q)]
              /\ \A j \in DOMAIN q.steps : q.steps[j] = "DecodeTyped" => j > 1 /\ q.steps[j - 1] = "Factory"
              /\ (q.pc = "done" /\ Resolves(q)) => Cardinality(FactoryCalls(q)) = 1
              /\ (q.pc = "done" /\ ~Resolves(q)) => FactoryCalls(q) = {} /\ q.request = 0
              /\ q.request # 0 <=> FactoryCalls(q) # {}
              /\ "DecodeTyped" \in StepsOf(q) => q.into = q.request
              /\ "Invoke" \in StepsOf(q) => q.arg = q.request
              /\ q.pc = "handler" => objects[q.arg] = TypedDecodeOf(q).b.Content
    /\ \A i, j \in DOMAIN reqs :
          (i # j /\ reqs[i].request # 0 /\ reqs[j].request # 0) => reqs[i].request # reqs[j].request

\* two requests for one entry, both inside the handler, each with its own
\* decoded object
C27_Witness ==
    /\ reqs[1].pc = "handler"
    /\ reqs[2].pc = "handler"
    /\ reqs[1].actionHandler = reqs[2].actionHandler
    /\ <<reqs[1].r.path, reqs[1].r.action, reqs[1].t>> = <<reqs[2].r.path, reqs[2].r.action, reqs[2].t>>
    /\ objects[reqs[1].arg] = FooRequest("i am foo")
    /\ objects[reqs[2].arg] = FooRequest("hello world")

====
